---------------------------- MODULE Spec2Model ----------------------------
(* Model of the Zurich open-data access layer                              *)
(* (src/src/zurich_opendata_mcp/api_client.py) and of the tool/resource    *)
(* handlers that call it (src/src/zurich_opendata_mcp/server.py).          *)
(*                                                                         *)
(* Python values are modelled as tagged records [t, v]; Python strings are *)
(* TLA+ strings; a raised exception is a record [type, status, msg] where  *)
(* msg is str(e).                                                          *)
EXTENDS Integers, Sequences, FiniteSets, TLC

VARIABLES
    calls,      \* Spec: per call slot, the position of one adapter coroutine
    clients,    \* Spec: per call slot, the state of the client it created
    last,       \* Spec: the most recently finished adapter call
    requests,   \* Spec: per call slot, the requests its suspended call has sent
    cls,        \* SpecClassify: one evaluation of handle_api_error
    shell,      \* SpecShell: one tool or resource handler invocation
    px,         \* SpecParis: one records response parsed and read
    fmt,        \* SpecFormat: one evaluation of format_dataset_summary
    search,     \* SpecSearch: one invocation of zurich_search_datasets
    school,     \* SpecSchool: one invocation of zurich_find_school_data
    analyze     \* SpecAnalyze: one invocation of zurich_analyze_datasets

vars == <<calls, clients, last, requests, cls, shell, px, fmt, search, school, analyze>>

(* ------------------------------ bounds -------------------------------- *)

MaxCalls == 2

CallIds == 1..MaxCalls

(* ----------------------------- constants ------------------------------ *)

CKAN_BASE_URL == "https://data.stadt-zuerich.ch"

CKAN_API_URL == CKAN_BASE_URL \o "/api/3/action"

PARKENDD_URL == "https://api.parkendd.de/Zuerich"

WFS_BASE_URL == "https://www.ogd.stadt-zuerich.ch/wfs/geoportal"

PARIS_API_URL == "https://www.gemeinderat-zuerich.ch/api"

ZT_API_URL == "https://www.zuerich.com/en/api/v2/data"

SPARQL_URL == "https://ld.stadt-zuerich.ch/query"

\* layer id -> (WFS service name, type name, description)
GEOPORTAL_LAYERS ==
    ("schulanlagen" :> <<"Schulanlagen", "poi_kindergarten_view",
                         "Schulstandorte (Kindergärten, Schulhäuser, Horte)">>) @@
    ("schulkreise" :> <<"Schulkreise", "adm_schulkreise_a", "Schulkreis-Grenzen (Polygone)">>) @@
    ("schulwege" :> <<"Schulweguebergaenge", "poi_schulweg_att",
                      "Schulweg-Übergänge und Gefahrenstellen">>) @@
    ("stadtkreise" :> <<"Stadtkreise", "adm_stadtkreise_a", "Stadtkreis-Grenzen (Polygone)">>) @@
    ("spielplaetze" :> <<"POI_oeffentliche_Spielplaetze", "poi_oeffentl_spielplatz_view",
                         "Öffentliche Spielplätze">>) @@
    ("kreisbuero" :> <<"Kreisbuero", "poi_kreisbuero_view", "Kreisbüros der Stadt Zürich">>) @@
    ("sammelstelle" :> <<"Sammelstelle", "poi_sammelstelle_view", "Abfall-Sammelstellen">>) @@
    ("sport" :> <<"Sport", "poi_sport_view", "Sportanlagen und -einrichtungen">>) @@
    ("klimadaten" :> <<"Klimadaten", "klimadaten_raster",
                       "Klimadaten (Raster, Temperaturen, Hitzeinseln)">>) @@
    ("lehrpfade" :> <<"Lehrpfade", "poi_lehrpfad_view", "Lehrpfade und Bildungswege">>) @@
    ("stimmlokale" :> <<"Stimmlokale", "poi_stimmlokale_view", "Abstimmungs- und Wahllokale">>) @@
    ("sozialzentrum" :> <<"Sozialzentrum", "poi_sozialzentrum_view", "Sozialzentren">>) @@
    ("velopruefstrecken" :> <<"Velopruefstrecken", "poi_velopruefstrecke_view",
                              "Veloprüfstrecken für Schulen">>) @@
    ("familienberatung" :> <<"Treffpunkt_Familienberatung", "poi_familienberatung_view",
                             "Familienberatungs-Treffpunkte">>)

ZT_CATEGORIES ==
    ("uebernachten" :> 71) @@ ("aktivitaeten" :> 99) @@ ("restaurants" :> 166) @@
    ("shopping" :> 130) @@ ("nachtleben" :> 139) @@ ("kultur" :> 145) @@
    ("events" :> 136) @@ ("touren" :> 189) @@ ("natur" :> 157) @@ ("sport" :> 159) @@
    ("familien" :> 175) @@ ("museen" :> 152)

PARIS_NAMESPACES ==
    ("sr" :> "http://www.cmiag.ch/cdws/searchDetailResponse") @@
    ("g" :> "http://www.cmiag.ch/cdws/Geschaeft") @@
    ("k" :> "http://www.cmiag.ch/cdws/Kontakt") @@
    ("b" :> "http://www.cmiag.ch/cdws/Behoerdenmandat")

REQUEST_TIMEOUT == 30

USER_AGENT == "ZurichOpenDataMCP/0.3 (MCP Server; +https://github.com/schulamt-zurich)"

(* --------------------------- Python values ---------------------------- *)

None == [t |-> "null", v |-> 0]

Str(s) == [t |-> "str", v |-> s]

Num(n) == [t |-> "int", v |-> n]

Bool(b) == [t |-> "bool", v |-> b]

Obj(f) == [t |-> "obj", v |-> f]

List(s) == [t |-> "list", v |-> s]

Xml(r) == [t |-> "xml", v |-> r]

EmptyDict == [k \in {} |-> None]

\* Python truthiness, as used by `not data.get("success")` and `if context`
Truthy(j) ==
    CASE j.t = "null" -> FALSE
      [] j.t = "bool" -> j.v
      [] j.t = "int"  -> j.v # 0
      [] j.t = "str"  -> j.v # ""
      [] j.t = "obj"  -> DOMAIN j.v # {}
      [] j.t = "list" -> Len(j.v) > 0
      [] OTHER        -> TRUE

\* dict.get(key, default) on the mapping d
DictGet(d, key, default) == IF key \in DOMAIN d THEN d[key] ELSE default

\* str(x) as an f-string placeholder renders it
PyStr(j) ==
    CASE j.t = "str"  -> j.v
      [] j.t = "null" -> "None"
      [] j.t = "int"  -> ToString(j.v)
      [] j.t = "bool" -> IF j.v THEN "True" ELSE "False"
      [] OTHER        -> "<" \o j.t \o ">"

\* type(x).__name__
TypeName(j) ==
    CASE j.t = "null" -> "NoneType"
      [] j.t = "str"  -> "str"
      [] j.t = "int"  -> "int"
      [] j.t = "bool" -> "bool"
      [] j.t = "obj"  -> "dict"
      [] j.t = "list" -> "list"
      [] OTHER        -> "Element"

(* ------------------------------- strings ------------------------------ *)

\* The upper-case form of each letter str.upper changes in the texts of the
\* model
UpperOf ==
    ("a" :> "A") @@ ("b" :> "B") @@ ("c" :> "C") @@ ("d" :> "D") @@ ("e" :> "E") @@
    ("f" :> "F") @@ ("g" :> "G") @@ ("h" :> "H") @@ ("i" :> "I") @@ ("j" :> "J") @@
    ("k" :> "K") @@ ("l" :> "L") @@ ("m" :> "M") @@ ("n" :> "N") @@ ("o" :> "O") @@
    ("p" :> "P") @@ ("q" :> "Q") @@ ("r" :> "R") @@ ("s" :> "S") @@ ("t" :> "T") @@
    ("u" :> "U") @@ ("v" :> "V") @@ ("w" :> "W") @@ ("x" :> "X") @@ ("y" :> "Y") @@
    ("z" :> "Z")

RECURSIVE upper(_)
\* str.upper
upper(s) ==
    IF s = "" THEN ""
    ELSE LET ch == SubSeq(s, 1, 1)
         IN  (IF ch \in DOMAIN UpperOf THEN UpperOf[ch] ELSE ch) \o upper(SubSeq(s, 2, Len(s)))

\* The grave accent of the Markdown texts; a TLA+ string cannot hold that
\* character, the acute accent stands for it
Backtick == "´"

RECURSIVE lower(_)
\* str.lower
lower(s) ==
    IF s = "" THEN ""
    ELSE LET ch == SubSeq(s, 1, 1)
             small == { c \in DOMAIN UpperOf : UpperOf[c] = ch }
         IN  (IF small = {} THEN ch ELSE CHOOSE c \in small : TRUE)
                 \o lower(SubSeq(s, 2, Len(s)))

\* str.isdigit, for the decimal digits 0 to 9
isdigit(s) ==
    /\ s # ""
    /\ \A i \in 1..Len(s) : SubSeq(s, i, i) \in {"0", "1", "2", "3", "4", "5", "6", "7", "8", "9"}

\* The letters in the order of their code points
Alphabet == "abcdefghijklmnopqrstuvwxyz"

\* The place of a letter in that order
ord(ch) == CHOOSE i \in 1..Len(Alphabet) : SubSeq(Alphabet, i, i) = ch

RECURSIVE str_lt(_, _)
\* a < b for strings of small letters
str_lt(a, b) ==
    IF b = "" THEN FALSE
    ELSE IF a = "" THEN TRUE
    ELSE IF SubSeq(a, 1, 1) = SubSeq(b, 1, 1)
    THEN str_lt(SubSeq(a, 2, Len(a)), SubSeq(b, 2, Len(b)))
    ELSE ord(SubSeq(a, 1, 1)) < ord(SubSeq(b, 1, 1))

RECURSIVE sorted(_)
\* sorted(keys) for a set of strings of small letters
sorted(keys) ==
    IF keys = {} THEN <<>>
    ELSE LET least == CHOOSE k \in keys : \A other \in keys \ {k} : str_lt(k, other)
         IN  <<least>> \o sorted(keys \ {least})

\* The characters str.strip removes
Whitespace == {" ", "\t", "\n", "\r", "\f"}

RECURSIVE lstrip(_)
lstrip(s) ==
    IF s # "" /\ SubSeq(s, 1, 1) \in Whitespace THEN lstrip(SubSeq(s, 2, Len(s))) ELSE s

RECURSIVE rstrip(_)
rstrip(s) ==
    IF s # "" /\ SubSeq(s, Len(s), Len(s)) \in Whitespace
    THEN rstrip(SubSeq(s, 1, Len(s) - 1))
    ELSE s

\* str.strip
strip(s) == rstrip(lstrip(s))

\* str.startswith
startswith(s, prefix) == Len(prefix) <= Len(s) /\ SubSeq(s, 1, Len(prefix)) = prefix

RECURSIVE join(_, _)
\* sep.join(parts) for a sequence of strings
join(sep, parts) ==
    IF Len(parts) = 0 THEN ""
    ELSE IF Len(parts) = 1 THEN parts[1]
    ELSE parts[1] \o sep \o join(sep, Tail(parts))

RECURSIVE rsplit_last(_, _)
\* s.rsplit(sep, 1)[-1] for a one-character sep: what follows its last
\* occurrence, or all of s when there is none
rsplit_last(s, sep) ==
    IF s = "" THEN ""
    ELSE IF SubSeq(s, Len(s), Len(s)) = sep THEN ""
    ELSE rsplit_last(SubSeq(s, 1, Len(s) - 1), sep) \o SubSeq(s, Len(s), Len(s))

\* `sub in s` for a one-character sub
contains_char(s, sub) == \E i \in 1..Len(s) : SubSeq(s, i, i) = sub

(* ----------------------------- exceptions ----------------------------- *)

Exc(type, status, msg) == [type |-> type, status |-> status, msg |-> msg]

NoExc == Exc("", 0, "")

\* The classes each exception type is an instance of (its MRO).
Bases(type) ==
    CASE type = "HTTPStatusError" -> {"HTTPStatusError", "HTTPError", "Exception"}
      [] type = "ReadTimeout"     -> {"ReadTimeout", "TimeoutException", "TransportError",
                                      "RequestError", "HTTPError", "Exception"}
      [] type = "ConnectTimeout"  -> {"ConnectTimeout", "TimeoutException", "TransportError",
                                      "RequestError", "HTTPError", "Exception"}
      [] type = "ConnectError"    -> {"ConnectError", "NetworkError", "TransportError",
                                      "RequestError", "HTTPError", "Exception"}
      [] type = "RuntimeError"    -> {"RuntimeError", "Exception"}
      [] type = "KeyError"        -> {"KeyError", "LookupError", "Exception"}
      [] type = "AttributeError"  -> {"AttributeError", "Exception"}
      [] type = "ValueError"      -> {"ValueError", "Exception"}
      [] type = "TypeError"       -> {"TypeError", "Exception"}
      [] type = "JSONDecodeError" -> {"JSONDecodeError", "ValueError", "Exception"}
      [] type = "ParseError"      -> {"ParseError", "SyntaxError", "Exception"}
      [] type = "CancelledError"  -> {"CancelledError", "BaseException"}
      [] OTHER                    -> {type}

\* type(e) is class, in place of isinstance
IsInstance_exact_type(e, class) == class = e.type

IsInstance(e, class) == class \in Bases(e.type)

\* What an attribute access x.get raises when x is not a mapping
NoGetAttr(j) ==
    Exc("AttributeError", 0, "'" \o TypeName(j) \o "' object has no attribute 'get'")

(* ------------------------------ outcomes ------------------------------ *)

\* How a coroutine or function ends: it returns a value or raises.
Return(v) == [kind |-> "return", value |-> v, exc |-> NoExc]

Raise(e) == [kind |-> "raise", value |-> None, exc |-> e]

(* --------------------------- error classifier ------------------------- *)

\* e.response.status_code: only an HTTPStatusError carries a response
StatusCode(e) ==
    IF IsInstance(e, "HTTPStatusError")
    THEN Return(Num(e.status))
    ELSE Raise(Exc("AttributeError", 0,
                   "'" \o e.type \o "' object has no attribute 'response'"))

\* As error_prefix, with nothing in front of the text when there is no context
error_prefix_empty(context) ==
    IF context # "" THEN "Fehler bei " \o context \o ": " ELSE ""

\* prefix = f"Fehler bei {context}: " if context else "Fehler: "
error_prefix(context) ==
    IF context # "" THEN "Fehler bei " \o context \o ": " ELSE "Fehler: "

\* The branch taken for an HTTPStatusError, on its status code
status_message_swapped(prefix, status) ==
    IF status = 403
    THEN Return(Str(prefix \o "Ressource nicht gefunden. Bitte ID/Name prüfen."))
    ELSE IF status = 404
    THEN Return(Str(prefix \o "Zugriff verweigert."))
    ELSE IF status = 429
    THEN Return(Str(prefix \o "Zu viele Anfragen. Bitte warten."))
    ELSE Return(Str(prefix \o "HTTP-Fehler " \o ToString(status)))

status_message(prefix, status) ==
    IF status = 404
    THEN Return(Str(prefix \o "Ressource nicht gefunden. Bitte ID/Name prüfen."))
    ELSE IF status = 403
    THEN Return(Str(prefix \o "Zugriff verweigert."))
    ELSE IF status = 429
    THEN Return(Str(prefix \o "Zu viele Anfragen. Bitte warten."))
    ELSE Return(Str(prefix \o "HTTP-Fehler " \o ToString(status)))

\* As handle_api_error, but testing for httpx.HTTPError before reading
\* e.response
handle_api_error_any_http_error(e, context) ==
    LET prefix == error_prefix(context)
    IN  IF IsInstance(e, "HTTPError")
        THEN LET sc == StatusCode(e)
             IN  IF sc.kind = "raise" THEN sc ELSE status_message(prefix, sc.value.v)
        ELSE IF IsInstance(e, "TimeoutException")
        THEN Return(Str(prefix \o "Zeitüberschreitung. Bitte erneut versuchen."))
        ELSE Return(Str(prefix \o e.type \o ": " \o e.msg))

handle_api_error(e, context) ==
    LET prefix == error_prefix(context)
    IN  IF IsInstance(e, "HTTPStatusError")
        THEN LET sc == StatusCode(e)
             IN  IF sc.kind = "raise" THEN sc ELSE status_message(prefix, sc.value.v)
        ELSE IF IsInstance(e, "TimeoutException")
        THEN Return(Str(prefix \o "Zeitüberschreitung. Bitte erneut versuchen."))
        ELSE Return(Str(prefix \o e.type \o ": " \o e.msg))

(* ------------------------------ transport ----------------------------- *)

NoClient == [state |-> "none", timeout |-> 0, user_agent |-> "", follow_redirects |-> FALSE]

\* httpx.AsyncClient(timeout=..., headers=..., follow_redirects=True), entered
\* by `async with`
_get_client ==
    [state |-> "open", timeout |-> REQUEST_TIMEOUT, user_agent |-> USER_AGENT,
     follow_redirects |-> TRUE]

\* The exit of `async with ... as client`: runs on every way out of the block
aexit_on_return_only(client, outcome) ==
    IF outcome.kind = "return" THEN [client EXCEPT !.state = "closed"] ELSE client

aexit(client, outcome) == [client EXCEPT !.state = "closed"]

(* What `await client.get(...)` produces: a response, or an exception      *)
(* raised at the suspension point (transport failure, cancellation).       *)
Response(status, body) == [kind |-> "response", status |-> status, body |-> body, exc |-> NoExc]

JsonBody(doc) == [kind |-> "json", doc |-> doc]

\* An XML body is the sequence of its markup tokens, in document order
XmlBody(tokens) == [kind |-> "xml", doc |-> [t |-> "markup", v |-> tokens]]

TextBody == [kind |-> "text", doc |-> None]

Thrown(e) == [kind |-> "thrown", status |-> 0, body |-> TextBody, exc |-> e]

\* httpx Response.is_success
is_success(status) == 200 <= status /\ status <= 299

\* As raise_for_status, but only for 4xx and 5xx
raise_for_status_from_400(resp) ==
    IF resp.status < 400
    THEN Return(None)
    ELSE Raise(Exc("HTTPStatusError", resp.status,
                   (IF resp.status < 500 THEN "Client error" ELSE "Server error")
                       \o " '" \o ToString(resp.status) \o "'"))

\* httpx Response.raise_for_status
raise_for_status(resp) ==
    IF is_success(resp.status)
    THEN Return(None)
    ELSE LET what == IF resp.status < 200 THEN "Informational response"
                     ELSE IF resp.status < 400 THEN "Redirect response"
                     ELSE IF resp.status < 500 THEN "Client error"
                     ELSE "Server error"
         IN  Raise(Exc("HTTPStatusError", resp.status,
                       what \o " '" \o ToString(resp.status) \o "'"))

\* httpx Response.json
json(resp) ==
    IF resp.body.kind = "json"
    THEN Return(resp.body.doc)
    ELSE Raise(Exc("JSONDecodeError", 0, "Expecting value: line 1 column 1 (char 0)"))

(* XML markup: a start tag <prefix:local xmlns...="..." name="value">, an   *)
(* end tag </prefix:local>, or character data. xmlns maps the prefixes the  *)
(* tag declares ("" for the default namespace) to namespace URIs.           *)
Open(prefix, local, xmlns, attrs) ==
    [k |-> "open", prefix |-> prefix, local |-> local, xmlns |-> xmlns, attrs |-> attrs,
     s |-> ""]

Close(prefix, local) ==
    [k |-> "close", prefix |-> prefix, local |-> local, xmlns |-> EmptyDict,
     attrs |-> EmptyDict, s |-> ""]

Text(s) ==
    [k |-> "text", prefix |-> "", local |-> "", xmlns |-> EmptyDict, attrs |-> EmptyDict,
     s |-> s]

\* An ElementTree Element
Element(tag, attrib, text, children) ==
    Xml([tag |-> tag, attrib |-> attrib, text |-> text, children |-> children])

ParseError(what) == Exc("ParseError", 0, what \o ": line 1, column 0")

\* The tag ElementTree gives an element: {uri}local, or local when the
\* element is in no namespace
qualified(uri, local) == IF uri = "" THEN local ELSE "{" \o uri \o "}" \o local

RECURSIVE parse_tokens(_, _, _, _)
\* The parser behind fromstring: `stack` holds the elements that are open,
\* innermost last, each with the namespace declarations in scope; `root` is
\* the document element once it is closed. Character data behind a child
\* (its tail) is not kept.
parse_tokens(tokens, i, stack, root) ==
    IF i > Len(tokens)
    THEN IF Len(stack) > 0 \/ root.t = "null"
         THEN Raise(ParseError("no element found"))
         ELSE Return(root)
    ELSE LET tok == tokens[i]
             depth == Len(stack)
         IN  IF tok.k = "open"
             THEN LET scope == tok.xmlns @@ (IF depth = 0 THEN ("" :> "") ELSE stack[depth].scope)
                  IN  IF root.t # "null"
                      THEN Raise(ParseError("junk after document element"))
                      ELSE IF tok.prefix \notin DOMAIN scope
                      THEN Raise(ParseError("unbound prefix"))
                      ELSE parse_tokens(tokens, i + 1,
                               Append(stack,
                                      [prefix |-> tok.prefix, local |-> tok.local,
                                       tag |-> qualified(scope[tok.prefix], tok.local),
                                       attrib |-> tok.attrs, text |-> None,
                                       children |-> <<>>, scope |-> scope]),
                               root)
             ELSE IF tok.k = "text"
             THEN IF depth = 0
                  THEN IF strip(tok.s) = ""
                       THEN parse_tokens(tokens, i + 1, stack, root)
                       ELSE Raise(ParseError(IF root.t = "null" THEN "syntax error"
                                             ELSE "junk after document element"))
                  ELSE IF Len(stack[depth].children) = 0 /\ tok.s # ""
                  THEN parse_tokens(tokens, i + 1,
                           [stack EXCEPT ![depth].text =
                               Str((IF @.t = "null" THEN "" ELSE @.v) \o tok.s)],
                           root)
                  ELSE parse_tokens(tokens, i + 1, stack, root)
             ELSE IF depth = 0
                  THEN Raise(ParseError(IF root.t = "null" THEN "syntax error"
                                        ELSE "junk after document element"))
                  ELSE IF stack[depth].prefix # tok.prefix \/ stack[depth].local # tok.local
                  THEN Raise(ParseError("mismatched tag"))
                  ELSE LET top == stack[depth]
                           el == Element(top.tag, top.attrib, top.text, top.children)
                       IN  IF depth = 1
                           THEN parse_tokens(tokens, i + 1, <<>>, el)
                           ELSE parse_tokens(tokens, i + 1,
                                    [SubSeq(stack, 1, depth - 1) EXCEPT
                                        ![depth - 1].children = Append(@, el)],
                                    root)

\* xml.etree.ElementTree.fromstring(response.content)
fromstring(resp) ==
    IF resp.body.kind = "xml"
    THEN parse_tokens(resp.body.doc.v, 1, <<>>, None)
    ELSE Raise(ParseError("syntax error"))

\* The tag a path step prefix:local stands for under the mapping `namespaces`
expand(path, namespaces) ==
    LET local == rsplit_last(path, ":")
    IN  IF Len(local) = Len(path) THEN path
        ELSE qualified(namespaces[SubSeq(path, 1, Len(path) - Len(local) - 1)], local)

\* As findall, comparing local names only
findall_any_namespace(element, path, namespaces) ==
    SelectSeq(element.v.children,
              LAMBDA c : rsplit_last(c.v.tag, "}") = rsplit_last(path, ":"))

\* Element.findall(path, namespaces) for a one-step path: the children of
\* the element that have the tag, in document order
findall(element, path, namespaces) ==
    SelectSeq(element.v.children, LAMBDA c : c.v.tag = expand(path, namespaces))

\* Element.find(path, namespaces) for a one-step path: the first such child,
\* or None
find(element, path, namespaces) ==
    LET found == findall(element, path, namespaces)
    IN  IF Len(found) = 0 THEN None ELSE found[1]

(* ------------------------------ adapters ------------------------------ *)
(* Each adapter is given the outcome `reply` of its awaited client.get and *)
(* yields the outcome of the coroutine.                                    *)

\* As unwrap_envelope, without the test of the success field
unwrap_envelope_unchecked(data) ==
    IF data.t # "obj" THEN Raise(NoGetAttr(data))
    ELSE IF "result" \notin DOMAIN data.v
    THEN Raise(Exc("KeyError", 0, "'result'"))
    ELSE Return(data.v["result"])

\* As unwrap_envelope, returning the decoded document
unwrap_envelope_whole(data) ==
    IF data.t # "obj" THEN Raise(NoGetAttr(data))
    ELSE IF ~Truthy(DictGet(data.v, "success", None))
    THEN LET err == DictGet(data.v, "error", Obj(EmptyDict))
         IN  IF err.t # "obj" THEN Raise(NoGetAttr(err))
             ELSE LET error_msg == DictGet(err.v, "message", Str("Unknown CKAN error"))
                  IN  Raise(Exc("RuntimeError", 0, "CKAN API error: " \o PyStr(error_msg)))
    ELSE IF "result" \notin DOMAIN data.v
    THEN Raise(Exc("KeyError", 0, "'result'"))
    ELSE Return(data)

\* The inspection of the decoded document `data` by ckan_request
unwrap_envelope(data) ==
    IF data.t # "obj" THEN Raise(NoGetAttr(data))
    ELSE IF ~Truthy(DictGet(data.v, "success", None))
    THEN LET err == DictGet(data.v, "error", Obj(EmptyDict))
         IN  IF err.t # "obj" THEN Raise(NoGetAttr(err))
             ELSE LET error_msg == DictGet(err.v, "message", Str("Unknown CKAN error"))
                  IN  Raise(Exc("RuntimeError", 0, "CKAN API error: " \o PyStr(error_msg)))
    ELSE IF "result" \notin DOMAIN data.v
    THEN Raise(Exc("KeyError", 0, "'result'"))
    ELSE Return(data.v["result"])

\* As ckan_request, inspecting the envelope before the status
ckan_request_envelope_first(action, params, reply) ==
    IF reply.kind = "thrown" THEN Raise(reply.exc)
    ELSE LET dec == json(reply)
             rs == raise_for_status(reply)
         IN  IF dec.kind = "return" /\ unwrap_envelope(dec.value).kind = "raise"
             THEN unwrap_envelope(dec.value)
             ELSE IF rs.kind = "raise" THEN rs
             ELSE IF dec.kind = "raise" THEN dec ELSE unwrap_envelope(dec.value)

ckan_request(action, params, reply) ==
    IF reply.kind = "thrown" THEN Raise(reply.exc)
    ELSE LET rs == raise_for_status(reply)
         IN  IF rs.kind = "raise" THEN rs
             ELSE LET dec == json(reply)
                  IN  IF dec.kind = "raise" THEN dec ELSE unwrap_envelope(dec.value)

http_get_json(url, params, reply) ==
    IF reply.kind = "thrown" THEN Raise(reply.exc)
    ELSE LET rs == raise_for_status(reply)
         IN  IF rs.kind = "raise" THEN rs ELSE json(reply)

\* As wfs_get_features, keeping max_features features of the answer at most
wfs_get_features_capped(service_name, typename, max_features, cql_filter, reply) ==
    IF reply.kind = "thrown" THEN Raise(reply.exc)
    ELSE LET rs == raise_for_status(reply)
             data == json(reply)
         IN  IF rs.kind = "raise" THEN rs
             ELSE IF data.kind = "return" /\ data.value.t = "obj"
                     /\ "features" \in DOMAIN data.value.v
                     /\ data.value.v["features"].t = "list"
             THEN Return(Obj([data.value.v EXCEPT !["features"] =
                                 List(SubSeq(@.v, 1, IF Len(@.v) < max_features
                                                     THEN Len(@.v) ELSE max_features))]))
             ELSE data

wfs_get_features(service_name, typename, max_features, cql_filter, reply) ==
    IF reply.kind = "thrown" THEN Raise(reply.exc)
    ELSE LET rs == raise_for_status(reply)
         IN  IF rs.kind = "raise" THEN rs ELSE json(reply)

\* As paris_search, parsing the body before the status is looked at
paris_search_parse_first(index, cql_query, start, max_results, reply) ==
    IF reply.kind = "thrown" THEN Raise(reply.exc)
    ELSE LET root == fromstring(reply)
         IN  IF root.kind = "raise" THEN root
             ELSE LET rs == raise_for_status(reply)
                  IN  IF rs.kind = "raise" THEN rs ELSE root

paris_search(index, cql_query, start, max_results, reply) ==
    IF reply.kind = "thrown" THEN Raise(reply.exc)
    ELSE LET rs == raise_for_status(reply)
         IN  IF rs.kind = "raise" THEN rs ELSE fromstring(reply)

sparql_query(query, reply) ==
    IF reply.kind = "thrown" THEN Raise(reply.exc)
    ELSE LET rs == raise_for_status(reply)
         IN  IF rs.kind = "raise" THEN rs ELSE json(reply)

(* ------------------------- records (PARIS) helpers -------------------- *)

DigitOf ==
    ("0" :> 0) @@ ("1" :> 1) @@ ("2" :> 2) @@ ("3" :> 3) @@ ("4" :> 4) @@
    ("5" :> 5) @@ ("6" :> 6) @@ ("7" :> 7) @@ ("8" :> 8) @@ ("9" :> 9)

RECURSIVE digits_value(_, _)
\* The number the digits of s denote behind the digits already read as acc;
\* underscores between digits do not count
digits_value(s, acc) ==
    IF s = "" THEN acc
    ELSE IF SubSeq(s, 1, 1) = "_" THEN digits_value(SubSeq(s, 2, Len(s)), acc)
    ELSE digits_value(SubSeq(s, 2, Len(s)), 10 * acc + DigitOf[SubSeq(s, 1, 1)])

\* Whether s is a run of decimal digits, with single underscores between
\* digits at most
is_digits(s) ==
    /\ s # ""
    /\ \A i \in 1..Len(s) : SubSeq(s, i, i) \in DOMAIN DigitOf \cup {"_"}
    /\ SubSeq(s, 1, 1) # "_" /\ SubSeq(s, Len(s), Len(s)) # "_"
    /\ \A i \in 1..(Len(s) - 1) : SubSeq(s, i, i + 1) # "__"

\* int(x) of Python for a string, an int or None
int(x) ==
    IF x.t = "int" THEN Return(x)
    ELSE IF x.t # "str"
    THEN Raise(Exc("TypeError", 0,
                   "int() argument must be a string, a bytes-like object or a real number, not '"
                       \o TypeName(x) \o "'"))
    ELSE LET t == strip(x.v)
             signed == t # "" /\ SubSeq(t, 1, 1) \in {"+", "-"}
             body == IF signed THEN SubSeq(t, 2, Len(t)) ELSE t
         IN  IF is_digits(body)
             THEN Return(Num(IF signed /\ SubSeq(t, 1, 1) = "-"
                             THEN 0 - digits_value(body, 0)
                             ELSE digits_value(body, 0)))
             ELSE Raise(Exc("ValueError", 0,
                            "invalid literal for int() with base 10: '" \o x.v \o "'"))

\* Element.get(key, default)
Element_get(element, key, default) ==
    IF key \in DOMAIN element.v.attrib THEN Str(element.v.attrib[key]) ELSE default

\* As paris_get_num_hits, reading the attribute without a default
paris_get_num_hits_no_default(root) == int(Element_get(root, "numHits", None))

paris_get_num_hits(root) == int(Element_get(root, "numHits", Str("0")))

\* As paris_extract_text, returning the text as it is
paris_extract_text_unstripped(element, default) ==
    IF element.t # "null" /\ Truthy(element.v.text)
    THEN Return(element.v.text)
    ELSE Return(Str(default))

paris_extract_text(element, default) ==
    IF element.t # "null" /\ Truthy(element.v.text)
    THEN Return(Str(strip(element.v.text.v)))
    ELSE Return(Str(default))

(* ------------------------------ requests ------------------------------ *)
(* What each adapter passes to client.get. A request inherits the timeout   *)
(* and the default headers of the client unless the call gives its own.     *)

\* As client_get, posting the parameters when there are any
client_get_or_post(config, url, params, headers, follow_redirects) ==
    [method |-> IF DOMAIN params = {} THEN "GET" ELSE "POST", url |-> url, params |-> params,
     headers |-> headers @@ ("User-Agent" :> Str(config.user_agent)),
     timeout |-> config.timeout, follow_redirects |-> follow_redirects]

\* httpx AsyncClient.get(url, params=..., headers=..., follow_redirects=...)
client_get(config, url, params, headers, follow_redirects) ==
    [method |-> "GET", url |-> url, params |-> params,
     headers |-> headers @@ ("User-Agent" :> Str(config.user_agent)),
     timeout |-> config.timeout, follow_redirects |-> follow_redirects]

\* `params or {}`
params_or_empty(params) == IF Truthy(params) THEN params.v ELSE EmptyDict

ckan_request_get(action, params) ==
    client_get(_get_client, CKAN_API_URL \o "/" \o action,
               params_or_empty(params), EmptyDict, _get_client.follow_redirects)

http_get_json_get(url, params) ==
    client_get(_get_client, url, params_or_empty(params), EmptyDict,
               _get_client.follow_redirects)

\* As wfs_get_features_get, sending the filter parameter in every request
wfs_get_features_get_filtered(service_name, typename, max_features, output_format, cql_filter) ==
    client_get(_get_client, WFS_BASE_URL \o "/" \o service_name,
               ("service" :> Str("WFS")) @@ ("version" :> Str("1.1.0")) @@
               ("request" :> Str("GetFeature")) @@ ("typename" :> Str(typename)) @@
               ("outputFormat" :> Str(output_format)) @@
               ("maxFeatures" :> Str(ToString(max_features))) @@
               ("CQL_FILTER" :> (IF Truthy(cql_filter) THEN cql_filter ELSE Str(""))),
               EmptyDict, _get_client.follow_redirects)

wfs_get_features_get(service_name, typename, max_features, output_format, cql_filter) ==
    client_get(_get_client, WFS_BASE_URL \o "/" \o service_name,
               ("service" :> Str("WFS")) @@ ("version" :> Str("1.1.0")) @@
               ("request" :> Str("GetFeature")) @@ ("typename" :> Str(typename)) @@
               ("outputFormat" :> Str(output_format)) @@
               ("maxFeatures" :> Str(ToString(max_features))) @@
               (IF Truthy(cql_filter) THEN "CQL_FILTER" :> cql_filter ELSE EmptyDict),
               EmptyDict, _get_client.follow_redirects)

\* As paris_search_get, with a timeout of its own and no redirects
paris_search_get_own_settings(index, cql_query, start, max_results) ==
    [client_get(_get_client, PARIS_API_URL \o "/" \o index \o "/searchdetails",
                ("q" :> Str(cql_query)) @@ ("l" :> Str("de-CH")) @@
                ("s" :> Str(ToString(start))) @@ ("m" :> Str(ToString(max_results))),
                EmptyDict, FALSE)
        EXCEPT !.timeout = 5]

paris_search_get(index, cql_query, start, max_results) ==
    client_get(_get_client, PARIS_API_URL \o "/" \o index \o "/searchdetails",
               ("q" :> Str(cql_query)) @@ ("l" :> Str("de-CH")) @@
               ("s" :> Str(ToString(start))) @@ ("m" :> Str(ToString(max_results))),
               EmptyDict, TRUE)

sparql_query_get(query) ==
    client_get(_get_client, SPARQL_URL, "query" :> Str(query),
               ("Accept" :> Str("application/json")) @@ ("User-Agent" :> Str(USER_AGENT)),
               _get_client.follow_redirects)

(* ------------------------- inputs of the model ------------------------ *)

\* The adapter invocations the model issues
AdapterCalls ==
    { [adapter |-> "ckan_request",
       args |-> [action |-> "package_search", params |-> Obj("q" :> Str("Schule"))]] }
    \cup
    { [adapter |-> "http_get_json", args |-> [url |-> PARKENDD_URL, params |-> None]] }
    \cup
    { [adapter |-> "wfs_get_features",
       args |-> [service_name |-> "Schulanlagen", typename |-> "poi_kindergarten_view",
                 max_features |-> 5, output_format |-> "GeoJSON", cql_filter |-> None]] }
    \cup
    { [adapter |-> "paris_search",
       args |-> [index |-> "geschaeft", cql_query |-> "Titel any Schule",
                 start |-> 1, max_results |-> 10]] }
    \cup
    { [adapter |-> "sparql_query", args |-> [query |-> "SELECT * WHERE { ?s ?p ?o } LIMIT 1"]] }

NoCall == [adapter |-> "", args |-> [none |-> TRUE]]

OkStatuses == {200, 201}

ErrorStatuses == {304, 403, 404, 429, 500}

\* The value in the result field of a package_search envelope
SearchResult ==
    Obj(("count" :> Num(120)) @@ ("results" :> List(<<Str("ds1"), Str("ds2"), Str("ds3")>>)))

\* The value of an envelope's error field, when it has one
ErrorValues ==
    { Obj(("__type" :> Str("Not Found Error")) @@ ("message" :> Str("Not found"))),
      Obj("__type" :> Str("Internal Error")),
      None }

\* Decoded catalog envelopes: each of success, error and result is absent or
\* takes one of the listed values.
Envelopes ==
    { Obj(s @@ e @@ r) :
        s \in {EmptyDict} \cup { "success" :> b : b \in {Bool(TRUE), Bool(FALSE)} },
        e \in {EmptyDict} \cup { "error" :> x : x \in ErrorValues },
        r \in {EmptyDict} \cup { "result" :> SearchResult } }

\* A failure envelope sent along with an error status
DeniedEnvelope ==
    Obj(("success" :> Bool(FALSE)) @@
        ("error" :> Obj(("__type" :> Str("Authorization Error")) @@
                        ("message" :> Str("Access denied")))))

\* A GeoJSON Point feature
PointFeature(i) ==
    Obj(("type" :> Str("Feature")) @@
        ("geometry" :> Obj(("type" :> Str("Point")) @@
                           ("coordinates" :> List(<<Num(2683000 + i), Num(1247000 + i)>>)))) @@
        ("properties" :> Obj("name" :> Str("Kindergarten " \o ToString(i)))))

\* The collection of five Point features a WFS backend answers with
FeatureCollection ==
    Obj(("type" :> Str("FeatureCollection")) @@
        ("features" :> List([i \in 1..5 |-> PointFeature(i)])))

SparqlResultSet ==
    Obj(("head" :> Obj("vars" :> List(<<Str("year")>>))) @@
        ("results" :> Obj("bindings" :> List(<<>>))))

\* A result set with two rows
SparqlRows ==
    Obj(("head" :> Obj("vars" :> List(<<Str("year"), Str("place")>>))) @@
        ("results" :> Obj("bindings" :> List(<<
            Obj(("year" :> Obj(("type" :> Str("literal")) @@ ("value" :> Str("2023")))) @@
                ("place" :> Obj(("type" :> Str("uri")) @@
                                ("value" :> Str("https://ld.stadt-zuerich.ch/code/R30000"))))),
            Obj("year" :> Obj(("type" :> Str("literal")) @@ ("value" :> Str("2024")))) >>))))

\* The Titel element of the i-th hit of a records response: text with
\* whitespace around it, an empty element, no element, whitespace only
TitelOf(i) ==
    CASE i = 1 -> <<Open("", "Titel", EmptyDict, EmptyDict), Text(" Neubau Schulhaus\n"),
                    Close("", "Titel")>>
      [] i = 2 -> <<Open("", "Titel", EmptyDict, EmptyDict), Close("", "Titel")>>
      [] i = 3 -> <<>>
      [] OTHER -> <<Open("", "Titel", EmptyDict, EmptyDict), Text("  "), Close("", "Titel")>>

\* The markup of the i-th hit
HitMarkup(i) ==
    << Text("\n"),
       Open("", "Hit", EmptyDict, "Guid" :> ToString(i)),
       Open("", "Geschaeft", "" :> PARIS_NAMESPACES["g"], EmptyDict),
       Open("", "GRNr", EmptyDict, EmptyDict), Text("2023/" \o ToString(i)),
       Close("", "GRNr") >>
    \o TitelOf(i) \o
    << Close("", "Geschaeft"), Close("", "Hit") >>

RECURSIVE HitsMarkup(_)
HitsMarkup(k) == IF k = 0 THEN <<>> ELSE HitsMarkup(k - 1) \o HitMarkup(k)

\* A records response as the backend serialises it: the root carries the
\* attribute numHits (None: no attribute) and has k Hit children; with
\* `other`, a child named Hit of another namespace precedes them
SearchDetailResponse(numHits, k, other) ==
    << Open("", "SearchDetailResponse", "" :> PARIS_NAMESPACES["sr"],
            IF numHits.t = "null" THEN EmptyDict ELSE "numHits" :> PyStr(numHits)) >>
    \o (IF other
        THEN << Open("g", "Hit", "g" :> PARIS_NAMESPACES["g"], EmptyDict), Close("g", "Hit") >>
        ELSE << >>)
    \o HitsMarkup(k)
    \o << Text("\n"), Close("", "SearchDetailResponse") >>

XmlSearchResult == SearchDetailResponse(Num(42), 1, FALSE)

\* A records response cut off inside its first hit
XmlTruncated ==
    << Open("", "SearchDetailResponse", "" :> PARIS_NAMESPACES["sr"], "numHits" :> "42"),
       Open("", "Hit", EmptyDict, EmptyDict) >>

\* Bodies that are not well-formed XML
MalformedXml ==
    { XmlTruncated,
      << >>,
      << Text("Service unavailable") >>,
      << Open("", "SearchDetailResponse", EmptyDict, EmptyDict), Close("", "Hit") >>,
      << Open("sr", "SearchDetailResponse", EmptyDict, EmptyDict),
         Close("sr", "SearchDetailResponse") >>,
      SearchDetailResponse(Num(1), 1, FALSE) \o << Open("", "Hit", EmptyDict, EmptyDict) >> }

\* Bodies a backend sends with a 2xx status, per adapter
OkBodies(adapter) ==
    CASE adapter = "ckan_request" ->
            { JsonBody(env) : env \in Envelopes } \cup { JsonBody(List(<<>>)), TextBody }
      [] adapter = "http_get_json" ->
            { JsonBody(List(<<Str("lot1")>>)), TextBody }
      [] adapter = "wfs_get_features" ->
            { JsonBody(FeatureCollection), XmlBody(XmlSearchResult) }
      [] adapter = "paris_search" ->
            { XmlBody(XmlSearchResult), XmlBody(XmlTruncated), TextBody }
      [] adapter = "sparql_query" ->
            { JsonBody(SparqlResultSet), JsonBody(SparqlRows), JsonBody(Obj(EmptyDict)),
              JsonBody(List(<<>>)), TextBody }

\* Bodies a backend sends with a non-2xx status, per adapter
ErrorBodies(adapter) ==
    CASE adapter = "ckan_request" -> { JsonBody(DeniedEnvelope), TextBody }
      [] adapter = "paris_search" ->
            { XmlBody(XmlSearchResult), XmlBody(XmlTruncated), TextBody }
      [] OTHER -> { JsonBody(List(<<>>)), TextBody }

\* Exceptions httpx raises at the suspension point instead of a response
TransportErrors ==
    { Exc("ReadTimeout", 0, ""), Exc("ConnectTimeout", 0, ""),
      Exc("ConnectError", 0, "All connection attempts failed") }

\* asyncio raises this at the suspension point when the caller abandons the call
CancelledError == Exc("CancelledError", 0, "")

\* Everything the awaited client.get of an adapter can produce
Replies(adapter) ==
    { Response(st, b) : st \in OkStatuses, b \in OkBodies(adapter) }
    \cup { Response(st, b) : st \in ErrorStatuses, b \in ErrorBodies(adapter) }
    \cup { Thrown(e) : e \in TransportErrors }

\* Dispatch of an invocation to the adapter coroutine it names
RunAdapter(call, reply) ==
    CASE call.adapter = "ckan_request" ->
            ckan_request(call.args.action, call.args.params, reply)
      [] call.adapter = "http_get_json" ->
            http_get_json(call.args.url, call.args.params, reply)
      [] call.adapter = "wfs_get_features" ->
            wfs_get_features(call.args.service_name, call.args.typename,
                             call.args.max_features, call.args.cql_filter, reply)
      [] call.adapter = "paris_search" ->
            paris_search(call.args.index, call.args.cql_query, call.args.start,
                         call.args.max_results, reply)
      [] call.adapter = "sparql_query" ->
            sparql_query(call.args.query, reply)

\* The request the invocation passes to client.get
RequestOf(call) ==
    CASE call.adapter = "ckan_request" ->
            ckan_request_get(call.args.action, call.args.params)
      [] call.adapter = "http_get_json" ->
            http_get_json_get(call.args.url, call.args.params)
      [] call.adapter = "wfs_get_features" ->
            wfs_get_features_get(call.args.service_name, call.args.typename,
                                 call.args.max_features, call.args.output_format,
                                 call.args.cql_filter)
      [] call.adapter = "paris_search" ->
            paris_search_get(call.args.index, call.args.cql_query,
                             call.args.start, call.args.max_results)
      [] call.adapter = "sparql_query" ->
            sparql_query_get(call.args.query)

\* As further_requests, sending the request once more after a timeout
further_requests_after_timeout(call, reply) ==
    IF reply.kind = "thrown" /\ IsInstance(reply.exc, "TimeoutException")
    THEN <<RequestOf(call)>>
    ELSE <<>>

\* The requests a coroutine sends after its client.get was answered: none,
\* whatever the answer
further_requests(call, reply) == <<>>

\* As client_for, with one client kept for all calls
client_for_shared(c) == 1

\* The client a call works with: the one its own _get_client() created
client_for(c) == c

(* ------------------- Spec: concurrent adapter calls ------------------- *)

NoLast == [call |-> NoCall, reply |-> Thrown(NoExc), outcome |-> Return(None),
           requests |-> <<>>]

AdapterInit ==
    /\ calls = [c \in CallIds |-> [pc |-> "idle", call |-> NoCall, client |-> 0]]
    /\ clients = [c \in CallIds |-> NoClient]
    /\ last = NoLast
    /\ requests = [c \in CallIds |-> <<>>]

\* The coroutine runs up to its first suspension: it creates and enters its
\* client and awaits client.get.
Call(c, call) ==
    /\ calls[c].pc = "idle"
    /\ calls' = [calls EXCEPT ![c] = [pc |-> "awaiting", call |-> call,
                                      client |-> client_for(c)]]
    /\ clients' = [clients EXCEPT ![client_for(c)] = _get_client]
    /\ requests' = [requests EXCEPT ![c] = <<RequestOf(call)>>]
    /\ UNCHANGED <<last, cls, shell, px, fmt, search, school, analyze>>

\* The coroutine is resumed with `reply` and runs to its end, leaving the
\* `async with` block on the way out.
Finish(c, reply) ==
    LET outcome == RunAdapter(calls[c].call, reply)
    IN  /\ calls[c].pc = "awaiting"
        /\ clients' = [clients EXCEPT ![calls[c].client] = aexit(clients[calls[c].client], outcome)]
        /\ last' = [call |-> calls[c].call, reply |-> reply, outcome |-> outcome,
                    requests |-> requests[c]
                                     \o further_requests(calls[c].call, reply)]
        /\ requests' = [requests EXCEPT ![c] = <<>>]
        /\ calls' = [calls EXCEPT ![c] = [pc |-> "done", call |-> NoCall, client |-> 0]]
        /\ UNCHANGED <<cls, shell, px, fmt, search, school, analyze>>

\* The backend answers, or the transport fails
Resume(c) ==
    /\ calls[c].pc = "awaiting"
    /\ \E reply \in Replies(calls[c].call.adapter) : Finish(c, reply)

\* The caller abandons the suspended call
Cancel(c) == Finish(c, Thrown(CancelledError))

\* The caller has taken the outcome; the slot and its client object are dropped
Retire(c) ==
    /\ calls[c].pc = "done"
    /\ calls' = [calls EXCEPT ![c] = [pc |-> "idle", call |-> NoCall, client |-> 0]]
    /\ clients' = [clients EXCEPT ![client_for(c)] = NoClient]
    /\ UNCHANGED <<last, requests, cls, shell, px, fmt, search, school, analyze>>

(* --------------------- the shell: tools and resources ------------------ *)

Ckan(action) == [adapter |-> "ckan_request", args |-> [action |-> action, params |-> Obj(EmptyDict)]]

GetJson(url) == [adapter |-> "http_get_json", args |-> [url |-> url, params |-> None]]

Wfs(service_name, typename, max_features) ==
    [adapter |-> "wfs_get_features",
     args |-> [service_name |-> service_name, typename |-> typename,
               max_features |-> max_features, output_format |-> "GeoJSON",
               cql_filter |-> None]]

Paris(index) ==
    [adapter |-> "paris_search",
     args |-> [index |-> index, cql_query |-> "Titel any Schule", start |-> 1,
               max_results |-> 10]]

Sparql(query) == [adapter |-> "sparql_query", args |-> [query |-> query]]

Tool(call, context) == [kind |-> "tool", call |-> call, context |-> context]

Resource(call) == [kind |-> "resource", call |-> call, context |-> ""]

\* The handlers: the adapter call each makes first (for a handler that takes
\* it from its input, the call for one input) and, for a tool, the context
\* label of its `except Exception` clause; zurich_geo_layers awaits nothing.
Handlers ==
    ("zurich_search_datasets"   :> Tool(Ckan("package_search"), "Datensatzsuche")) @@
    ("zurich_get_dataset"       :> Tool(Ckan("package_show"), "Datensatz-Details")) @@
    ("zurich_datastore_query"   :> Tool(Ckan("datastore_search"), "DataStore-Abfrage")) @@
    ("zurich_datastore_sql"     :> Tool(Ckan("datastore_search_sql"), "SQL-Abfrage")) @@
    ("zurich_list_categories"   :> Tool(Ckan("group_list"), "Kategorien")) @@
    ("zurich_list_tags"         :> Tool(Ckan("tag_list"), "Tag-Suche")) @@
    ("zurich_parking_live"      :> Tool(GetJson(PARKENDD_URL), "Parkplatz-Daten")) @@
    ("zurich_analyze_datasets"  :> Tool(Ckan("package_search"), "Datensatz-Analyse")) @@
    ("zurich_catalog_stats"     :> Tool(Ckan("package_search"), "Katalog-Statistiken")) @@
    ("zurich_find_school_data"  :> Tool(Ckan("package_search"), "Schuldaten-Suche")) @@
    ("zurich_weather_live"      :> Tool(Ckan("datastore_search"), "Wetterdaten")) @@
    ("zurich_air_quality"       :> Tool(Ckan("datastore_search"), "Luftqualität")) @@
    ("zurich_water_weather"     :> Tool(Ckan("datastore_search"), "Wasserwetter")) @@
    ("zurich_pedestrian_traffic" :> Tool(Ckan("datastore_search"), "Passantenfrequenzen")) @@
    ("zurich_vbz_passengers"    :> Tool(Ckan("datastore_search"), "VBZ-Fahrgastzahlen")) @@
    ("zurich_geo_features"      :> Tool(Wfs("Schulanlagen", "poi_kindergarten_view", 50),
                                        "Geodaten-Abfrage")) @@
    ("zurich_parliament_search" :> Tool(Paris("geschaeft"), "Geschäftssuche Gemeinderat")) @@
    ("zurich_parliament_members" :> Tool(Paris("behoerdenmandat"), "Mitgliedersuche Gemeinderat")) @@
    ("zurich_tourism"           :> Tool(GetJson(ZT_API_URL \o "?id=166"), "Zürich Tourismus")) @@
    ("zurich_sparql"            :> Tool(Sparql("SELECT * WHERE { ?s ?p ?o } LIMIT 1"),
                                        "SPARQL-Abfrage")) @@
    ("get_dataset_resource"     :> Resource(Ckan("package_show"))) @@
    ("get_category_resource"    :> Resource(Ckan("group_show"))) @@
    ("get_parking_resource"     :> Resource(GetJson(PARKENDD_URL))) @@
    ("get_geo_resource"         :> Resource(Wfs("Schulanlagen", "poi_kindergarten_view", 500))) @@
    ("get_tourism_categories_resource" :> Resource(GetJson(ZT_API_URL))) @@
    ("zurich_geo_layers"        :> [kind |-> "static", call |-> NoCall, context |-> ""])

\* The queries zurich_sparql is called with: params.query after validation
\* (stripped, 10 to 5000 characters)
SparqlQueries ==
    { "SELECT * WHERE { ?s ?p ?o } LIMIT 1",
      "select ?s where { ?s ?p ?o }",
      "PREFIX ex: <http://example.org/> SELECT ?s WHERE { ?s ex:p ?o }",
      "PREFIX ex: <http://example.org/> ASK { ?s ex:p ?o }",
      "prefix ex: <http://example.org/> CONSTRUCT { ?s ex:p ?o } WHERE { ?s ?p ?o }",
      "ASK { ?s ?p ?o }",
      "DESCRIBE <http://example.org/a>",
      "INSERT DATA { <http://example.org/a> <http://example.org/p> 1 }" }

\* The layer ids and filters the geodata handlers are called with
LayerIds == DOMAIN GEOPORTAL_LAYERS \cup {"Schulanlagen", "parks"}

PropertyFilters == {None, Str(""), Str("kategorie = 'Kindergarten'"), Str("name LIKE '%; x")}

\* The categories zurich_tourism is called with
TourismCategories ==
    {"restaurants", "Restaurants", "museen", "166", "0071", "hotels", "99x"}

NoParams == [none |-> TRUE]

\* The inputs of each handler, as far as its adapter call depends on them
HandlerParams(h) ==
    CASE h = "zurich_sparql" -> { [query |-> q] : q \in SparqlQueries }
      [] h = "zurich_geo_features" ->
            { [layer_id |-> l, max_features |-> m, property_filter |-> f] :
                l \in LayerIds, m \in {3, 50}, f \in PropertyFilters }
      [] h = "get_geo_resource" -> { [layer_id |-> l] : l \in LayerIds }
      [] h = "zurich_tourism" -> { [category |-> c] : c \in TourismCategories }
      [] OTHER -> { NoParams }

\* As tourism_category, looking the category up as it is written
tourism_category_as_written(category) ==
    IF isdigit(category) THEN int(Str(category))
    ELSE IF category \in DOMAIN ZT_CATEGORIES
    THEN Return(Num(ZT_CATEGORIES[category]))
    ELSE Return(None)

\* zurich_tourism: the category id params.category resolves to, if any
tourism_category(category) ==
    IF isdigit(category) THEN int(Str(category))
    ELSE IF lower(category) \in DOMAIN ZT_CATEGORIES
    THEN Return(Num(ZT_CATEGORIES[lower(category)]))
    ELSE Return(None)

\* The adapter call a handler makes for its input; NoCall when it makes none
adapter_call(h, params) ==
    CASE h = "zurich_sparql" -> Sparql(params.query)
      [] h = "zurich_geo_features" ->
            IF params.layer_id \in DOMAIN GEOPORTAL_LAYERS
            THEN [Wfs(GEOPORTAL_LAYERS[params.layer_id][1],
                      GEOPORTAL_LAYERS[params.layer_id][2], params.max_features)
                     EXCEPT !.args.cql_filter = params.property_filter]
            ELSE NoCall
      [] h = "get_geo_resource" ->
            IF params.layer_id \in DOMAIN GEOPORTAL_LAYERS
            THEN Wfs(GEOPORTAL_LAYERS[params.layer_id][1],
                     GEOPORTAL_LAYERS[params.layer_id][2], 500)
            ELSE NoCall
      [] h = "zurich_tourism" ->
            LET cat_id == tourism_category(params.category)
            IN  IF cat_id.kind = "return" /\ cat_id.value.t = "int"
                THEN GetJson(ZT_API_URL \o "?id=" \o ToString(cat_id.value.v))
                ELSE NoCall
      [] OTHER -> Handlers[h].call

\* zurich_geo_layers: the table of the registry
geo_layers_table ==
    LET ids == sorted(DOMAIN GEOPORTAL_LAYERS)
    IN  join("\n",
             << "## Verfügbare Geoportal-Layer (WFS)",
                "**Anzahl**: " \o ToString(Len(ids)) \o "\n",
                "| Layer-ID | Beschreibung | WFS-Service |",
                "|---|---|---|" >>
             \o [i \in 1..Len(ids) |->
                    "| " \o Backtick \o ids[i] \o Backtick \o " | " \o GEOPORTAL_LAYERS[ids[i]][3]
                        \o " | " \o GEOPORTAL_LAYERS[ids[i]][1] \o " |"]
             \o << "\n*Nutze " \o Backtick \o "zurich_geo_features" \o Backtick
                       \o " mit einer Layer-ID, um GeoJSON-Daten abzurufen.*" >>)

\* zurich_tourism: the registry as the 'unknown' message lists it
tourism_available ==
    LET keys == sorted(DOMAIN ZT_CATEGORIES)
    IN  join(", ", [i \in 1..Len(keys) |->
                       Backtick \o keys[i] \o Backtick \o " ("
                           \o ToString(ZT_CATEGORIES[keys[i]]) \o ")"])

\* zurich_sparql: the test of params.query in front of the adapter call
sparql_allowed(query) ==
    LET query_upper == upper(strip(query))
    IN  startswith(query_upper, "SELECT") \/ startswith(query_upper, "PREFIX")

\* What a handler returns before it awaits its adapter, if it returns there
early_return(h, params) ==
    CASE h = "zurich_sparql" /\ ~sparql_allowed(params.query) ->
            Return(Str("Nur SELECT-Abfragen sind erlaubt."))
      [] h = "zurich_geo_features" /\ params.layer_id \notin DOMAIN GEOPORTAL_LAYERS ->
            Return(Str("Unbekannter Layer " \o Backtick \o params.layer_id \o Backtick
                           \o ". Verfügbar: " \o join(", ", sorted(DOMAIN GEOPORTAL_LAYERS))))
      [] h = "get_geo_resource" /\ params.layer_id \notin DOMAIN GEOPORTAL_LAYERS ->
            Return(Str("{\"error\": \"Unknown layer: " \o params.layer_id \o "\"}"))
      [] h = "zurich_tourism" /\ tourism_category(params.category).kind = "raise" ->
            handle_api_error(tourism_category(params.category).exc, Handlers[h].context)
      [] h = "zurich_tourism" /\ tourism_category(params.category).kind = "return"
                              /\ tourism_category(params.category).value.t = "null" ->
            Return(Str("Unbekannte Kategorie " \o Backtick \o params.category \o Backtick
                           \o ". Verfügbar:\n" \o tourism_available))
      [] h = "zurich_geo_layers" -> Return(Str(geo_layers_table))
      [] OTHER -> Return(None)

\* zurich_sparql: one cell of the table
sparql_cell(binding, var) ==
    LET cell == DictGet(binding.v, var, Obj(EmptyDict))
        value == DictGet(cell.v, "value", Str("")).v
        short == rsplit_last(value, "/")
        type == DictGet(cell.v, "type", None)
        shown == IF type.t = "str" /\ type.v = "uri" /\ contains_char(value, "/")
                      /\ Len(short) < 80
                 THEN short
                 ELSE value
    IN  IF Len(shown) > 100 THEN SubSeq(shown, 1, 97) \o "..." ELSE shown

\* zurich_sparql: the Markdown table of a result set with rows
sparql_table(variables, bindings) ==
    LET names == [i \in 1..Len(variables) |-> variables[i].v]
        shown == SubSeq(bindings, 1, IF Len(bindings) < 100 THEN Len(bindings) ELSE 100)
        row(binding) ==
            "| " \o join(" | ", [i \in 1..Len(names) |-> sparql_cell(binding, names[i])]) \o " |"
        lines ==
            << "## SPARQL-Ergebnis",
               "**" \o ToString(Len(bindings)) \o " Zeilen**, Variablen: "
                   \o join(", ", names) \o "\n",
               "| " \o join(" | ", names) \o " |",
               "| " \o join(" | ", [i \in 1..Len(names) |-> "---"]) \o " |" >>
            \o [i \in 1..Len(shown) |-> row(shown[i])]
            \o (IF Len(bindings) > 100
                THEN << "\n*Zeige 100 von " \o ToString(Len(bindings)) \o " Zeilen*" >>
                ELSE << >>)
            \o << "\n*Endpoint: " \o SPARQL_URL \o "*" >>
    IN  join("\n", lines)

\* As sparql_rows, without the test for an empty result
sparql_rows_always_table(variables, bindings) ==
    Return(Str(sparql_table(variables.v, bindings.v)))

\* zurich_sparql: `if not bindings: return ...`, else the table
sparql_rows(variables, bindings) ==
    IF ~Truthy(bindings)
    THEN Return(Str("SPARQL-Abfrage lieferte keine Ergebnisse."))
    ELSE Return(Str(sparql_table(variables.v, bindings.v)))

\* zurich_sparql after the adapter returned `result`; vars and bindings,
\* where present, are lists as the SPARQL results format has them
zurich_sparql_result(result) ==
    IF result.t # "obj" THEN Raise(NoGetAttr(result))
    ELSE LET head == DictGet(result.v, "head", Obj(EmptyDict))
             results == DictGet(result.v, "results", Obj(EmptyDict))
         IN  IF head.t # "obj" THEN Raise(NoGetAttr(head))
             ELSE IF results.t # "obj" THEN Raise(NoGetAttr(results))
             ELSE sparql_rows(DictGet(head.v, "vars", List(<<>>)),
                              DictGet(results.v, "bindings", List(<<>>)))

\* What a handler does with a successful adapter result (Markdown for a tool,
\* json.dumps for a resource); for the handlers other than zurich_sparql only
\* its being a string is modelled here.
render(h, value) ==
    IF h = "zurich_sparql" THEN zurich_sparql_result(value)
    ELSE Return(Str("<" \o h \o ">"))

\* A tool body: try: ... await adapter ... except Exception as e:
\*     return handle_api_error(e, context)
tool_handler(h, ao) ==
    LET body == IF ao.kind = "raise" THEN ao ELSE render(h, ao.value)
    IN  IF body.kind = "raise" /\ IsInstance(body.exc, "Exception")
        THEN handle_api_error(body.exc, Handlers[h].context)
        ELSE body

\* A resource body: result = await adapter; return json.dumps(result)
resource_handler(h, ao) ==
    IF ao.kind = "raise" THEN ao ELSE render(h, ao.value)

RunHandler(h, ao) ==
    IF Handlers[h].kind = "tool" THEN tool_handler(h, ao) ELSE resource_handler(h, ao)

(* ------------------- SpecShell: one handler at a time ------------------ *)

NoShell == [pc |-> "idle", handler |-> "", params |-> NoParams, call |-> NoCall,
            requests |-> <<>>,
            reply |-> Thrown(NoExc), adapter_outcome |-> Return(None),
            outcome |-> Return(None)]

\* The host calls a handler, which runs up to the await of its adapter, or to
\* its end when it returns before that
Invoke(h, params) ==
    /\ shell.pc = "idle"
    /\ LET call == adapter_call(h, params)
       IN  shell' = IF Truthy(early_return(h, params).value)
                    THEN [NoShell EXCEPT !.pc = "done", !.handler = h, !.params = params,
                                         !.call = call, !.outcome = early_return(h, params)]
                    ELSE [NoShell EXCEPT !.pc = "awaiting", !.handler = h,
                                         !.params = params, !.call = call,
                                         !.requests = <<RequestOf(call)>>]
    /\ UNCHANGED <<calls, clients, last, requests, cls, px, fmt, search, school, analyze>>

\* The awaited client.get of the adapter produces `reply`; the adapter
\* coroutine ends and the handler runs to its end
Complete(reply) ==
    /\ shell.pc = "awaiting"
    /\ LET ao == RunAdapter(shell.call, reply)
       IN  shell' = [shell EXCEPT !.pc = "done", !.reply = reply, !.adapter_outcome = ao,
                                  !.requests = @ \o further_requests(shell.call, reply),
                                  !.outcome = RunHandler(shell.handler, ao)]
    /\ UNCHANGED <<calls, clients, last, requests, cls, px, fmt, search, school, analyze>>

Deliver ==
    /\ shell.pc = "awaiting"
    /\ \E reply \in Replies(shell.call.adapter) : Complete(reply)

\* The host abandons the handler while its adapter is suspended
Abandon == Complete(Thrown(CancelledError))

\* The host has taken the handler's outcome
Reap ==
    /\ shell.pc = "done"
    /\ shell' = NoShell
    /\ UNCHANGED <<calls, clients, last, requests, cls, px, fmt, search, school, analyze>>

(* ---------------- SpecClassify: the classifier evaluated --------------- *)

\* Every failure an adapter of the model raises to its caller
AdapterFailures ==
    UNION { { RunAdapter(call, reply).exc : reply \in
                { r \in Replies(call.adapter) : RunAdapter(call, r).kind = "raise" } }
            : call \in AdapterCalls }

MoreStatuses == {400, 401, 402, 405, 428, 430, 500, 503}

Failures ==
    AdapterFailures \cup { Exc("HTTPStatusError", st, "") : st \in MoreStatuses }

\* The labels the tools pass, the default of the parameter, and one more
Contexts ==
    { Handlers[h].context : h \in { x \in DOMAIN Handlers : Handlers[x].kind = "tool" } }
    \cup {"", "dataset search"}

NoCls == [pc |-> "none", e |-> NoExc, context |-> "", out |-> Return(None)]

\* handle_api_error(e, context) is called ...
ClassifyCall(e, context) ==
    /\ cls.pc \in {"none", "out"}
    /\ cls' = [pc |-> "in", e |-> e, context |-> context, out |-> Return(None)]
    /\ UNCHANGED <<calls, clients, last, requests, shell, px, fmt, search, school, analyze>>

\* ... and ends
Classify ==
    /\ cls.pc = "in"
    /\ cls' = [cls EXCEPT !.pc = "out", !.out = handle_api_error(cls.e, cls.context)]
    /\ UNCHANGED <<calls, clients, last, requests, shell, px, fmt, search, school, analyze>>

(* ------------- SpecParis: a records response parsed and read ----------- *)

MaxHits == 3

\* What the backend writes into the numHits attribute: nothing, a count in
\* decimal, or some other text
NumHitsSent ==
    { None, Num(0), Num(3), Num(42),
      Str("abc"), Str(""), Str("4.0"), Str(" 7 "), Str("1_000") }

\* The bodies of the 2xx responses to a records search
ParisBodies ==
    { XmlBody(SearchDetailResponse(n, k, other)) :
        n \in NumHitsSent, k \in 0..MaxHits, other \in BOOLEAN }
    \cup { XmlBody(m) : m \in MalformedXml }
    \cup { TextBody }

NoPx == [pc |-> "none", body |-> TextBody, root |-> Return(None),
         num_hits |-> Return(None), hits |-> <<>>,
         element |-> None, default |-> "", text |-> Return(None)]

\* root = await paris_search("geschaeft", cql, max_results=...), answered by a
\* 200 response with `body`
ParisSearch(body) ==
    /\ px.pc = "none"
    /\ px' = [NoPx EXCEPT !.pc = "searched", !.body = body,
                          !.root = paris_search("geschaeft", "Titel any Schule", 1, 10,
                                                Response(200, body))]
    /\ UNCHANGED <<calls, clients, last, requests, cls, shell, fmt, search, school, analyze>>

\* num_hits = paris_get_num_hits(root); hits = root.findall("sr:Hit", ns)
ParisRead ==
    /\ px.pc = "searched"
    /\ px.root.kind = "return"
    /\ LET num_hits == paris_get_num_hits(px.root.value)
       IN  px' = [px EXCEPT !.pc = "read", !.num_hits = num_hits,
                            !.hits = IF num_hits.kind = "raise" THEN <<>>
                                     ELSE findall(px.root.value, "sr:Hit", PARIS_NAMESPACES)]
    /\ UNCHANGED <<calls, clients, last, requests, cls, shell, fmt, search, school, analyze>>

\* The elements the handler looks up below a hit's g:Geschaeft: each is an
\* element or None
HitFields(hit) ==
    LET geschaeft == find(hit, "g:Geschaeft", PARIS_NAMESPACES)
    IN  IF geschaeft.t = "null" THEN {}
        ELSE { find(geschaeft, path, PARIS_NAMESPACES) :
                 path \in {"g:GRNr", "g:Titel", "g:Geschaeftsart"} }

\* An element whose text is the empty string, as code can build it
EmptyTextElement == Element(qualified(PARIS_NAMESPACES["g"], "Titel"), EmptyDict, Str(""), <<>>)

\* The defaults the handlers pass to paris_extract_text
ExtractDefaults == {"", "?", "Ohne Titel"}

\* paris_extract_text(element, default)
ParisExtract(element, default) ==
    /\ px.pc = "read"
    /\ px.num_hits.kind = "return"
    /\ px' = [px EXCEPT !.pc = "extracted", !.element = element, !.default = default,
                        !.text = paris_extract_text(element, default)]
    /\ UNCHANGED <<calls, clients, last, requests, cls, shell, fmt, search, school, analyze>>

\* The handler ends
ParisReturn ==
    /\ px.pc \in {"searched", "read", "extracted"}
    /\ px' = NoPx
    /\ UNCHANGED <<calls, clients, last, requests, cls, shell, fmt, search, school, analyze>>

ParisNext ==
    \/ \E body \in ParisBodies : ParisSearch(body)
    \/ ParisRead
    \/ \E element \in UNION { HitFields(px.hits[i]) : i \in 1..Len(px.hits) }
                      \cup {None, EmptyTextElement},
          default \in ExtractDefaults : ParisExtract(element, default)
    \/ ParisReturn

(* ---------------- SpecFormat: format_dataset_summary ------------------- *)

\* x[:n]
slice(x, n) ==
    IF x.t = "str" THEN Return(Str(SubSeq(x.v, 1, IF Len(x.v) < n THEN Len(x.v) ELSE n)))
    ELSE IF x.t = "list"
    THEN Return(List(SubSeq(x.v, 1, IF Len(x.v) < n THEN Len(x.v) ELSE n)))
    ELSE Raise(Exc("TypeError", 0, "'" \o TypeName(x) \o "' object is not subscriptable"))

\* [g.get(first, g.get(second, "")) for g in xs]
names_of(xs, first, second) ==
    IF xs.t # "list"
    THEN Raise(Exc("TypeError", 0, "'" \o TypeName(xs) \o "' object is not iterable"))
    ELSE IF \E i \in 1..Len(xs.v) : xs.v[i].t # "obj"
    THEN Raise(NoGetAttr(xs.v[CHOOSE i \in 1..Len(xs.v) :
                                 /\ xs.v[i].t # "obj"
                                 /\ \A j \in 1..(i - 1) : xs.v[j].t = "obj"]))
    ELSE Return(List([i \in 1..Len(xs.v) |->
                         DictGet(xs.v[i].v, first, DictGet(xs.v[i].v, second, Str("")))]))

\* ', '.join(xs) for a list
comma_join(xs) ==
    IF xs.t # "list"
    THEN Raise(Exc("TypeError", 0, "can only join an iterable"))
    ELSE IF \E i \in 1..Len(xs.v) : xs.v[i].t # "str"
    THEN LET bad == CHOOSE i \in 1..Len(xs.v) :
                        /\ xs.v[i].t # "str"
                        /\ \A j \in 1..(i - 1) : xs.v[j].t = "str"
         IN  Raise(Exc("TypeError", 0,
                       "sequence item " \o ToString(bad - 1) \o ": expected str instance, "
                           \o TypeName(xs.v[bad]) \o " found"))
    ELSE Return(Str(join(", ", [i \in 1..Len(xs.v) |-> xs.v[i].v])))

\* As dataset_title, with the identifier where there is no title
dataset_title_or_name(dataset) == DictGet(dataset.v, "title", DictGet(dataset.v, "name", Str("")))

\* title = dataset.get("title", "Unbekannt")
dataset_title(dataset) == DictGet(dataset.v, "title", Str("Unbekannt"))

\* One optional line of the summary: `if value: lines.append(label + text)`
optional_line(value, label, text) ==
    IF Truthy(value) THEN << "- **" \o label \o "**: " \o text >> ELSE << >>

format_dataset_summary(dataset) ==
    LET title == dataset_title(dataset)
        name == DictGet(dataset.v, "name", Str(""))
        author == DictGet(dataset.v, "author", Str("Unbekannt"))
        notes_given == DictGet(dataset.v, "notes", None)
        notes == slice(IF Truthy(notes_given) THEN notes_given ELSE Str(""), 300)
        license_title == DictGet(dataset.v, "license_title", Str("Unbekannt"))
        num_resources == DictGet(dataset.v, "num_resources", Num(0))
        modified == slice(DictGet(dataset.v, "metadata_modified", Str("")), 10)
        update_interval == DictGet(dataset.v, "updateInterval", List(<<>>))
        groups == names_of(DictGet(dataset.v, "groups", List(<<>>)), "title", "name")
        tags == names_of(DictGet(dataset.v, "tags", List(<<>>)), "display_name", "name")
        url == CKAN_BASE_URL \o "/dataset/" \o PyStr(name)
        intervals == IF Truthy(update_interval) THEN comma_join(update_interval)
                     ELSE Return(Str(""))
        categories == IF groups.kind = "return" /\ Truthy(groups.value)
                      THEN comma_join(groups.value)
                      ELSE Return(Str(""))
        shown_tags == IF tags.kind = "return" /\ Truthy(tags.value)
                      THEN comma_join(slice(tags.value, 10).value)
                      ELSE Return(Str(""))
    IN  IF notes.kind = "raise" THEN notes
        ELSE IF modified.kind = "raise" THEN modified
        ELSE IF groups.kind = "raise" THEN groups
        ELSE IF tags.kind = "raise" THEN tags
        ELSE IF intervals.kind = "raise" THEN intervals
        ELSE IF categories.kind = "raise" THEN categories
        ELSE IF shown_tags.kind = "raise" THEN shown_tags
        ELSE Return(Str(join("\n",
                 << "### " \o PyStr(title),
                    "- **ID**: " \o Backtick \o PyStr(name) \o Backtick,
                    "- **Autor**: " \o PyStr(author),
                    "- **Lizenz**: " \o PyStr(license_title),
                    "- **Ressourcen**: " \o PyStr(num_resources),
                    "- **Letzte Änderung**: " \o PyStr(modified.value) >>
                 \o optional_line(update_interval, "Aktualisierung", intervals.value.v)
                 \o optional_line(groups.value, "Kategorien", categories.value.v)
                 \o optional_line(tags.value, "Tags", shown_tags.value.v)
                 \o optional_line(notes.value, "Beschreibung", PyStr(notes.value) \o "...")
                 \o << "- **URL**: " \o url >>)))

\* Ten and a hundred characters of text
Filler10 == "aaaaaaaaaa"

Filler100 ==
    Filler10 \o Filler10 \o Filler10 \o Filler10 \o Filler10 \o
    Filler10 \o Filler10 \o Filler10 \o Filler10 \o Filler10

\* A description of exactly 300 characters, the last one unlike the others
Notes300 == Filler100 \o Filler100 \o SubSeq(Filler100, 1, 99) \o "b"

\* The values a field of a catalog record takes when the record has it
FieldValues(key) ==
    CASE key = "title" -> {Str("Schulferien Stadt Zürich")}
      [] key = "name" -> {Str("schulferien"), Str("sid_stzh_bev")}
      [] key = "author" -> {Str("Schulamt"), None}
      [] key = "notes" -> {Str("Ferien der Volksschule."), Str(""), Str(Notes300),
                           Str(Notes300 \o "c"), None}
      [] key = "license_title" -> {Str("CC0")}
      [] key = "num_resources" -> {Num(2)}
      [] key = "metadata_modified" -> {Str("2024-05-01T09:30:00.123456"), None}
      [] key = "updateInterval" -> {List(<<Str("jaehrlich"), Str("laufend")>>)}
      [] key = "groups" -> {List(<<Obj("title" :> Str("Bildung")), Obj("name" :> Str("basiskarten")),
                                  Obj(EmptyDict)>>),
                            None}
      [] key = "tags" -> {List(<<Obj(("display_name" :> Str("schule")) @@ ("name" :> Str("s")))>>)}

FieldNames ==
    {"title", "name", "author", "notes", "license_title", "num_resources",
     "metadata_modified", "updateInterval", "groups", "tags"}

RECURSIVE Records(_)
\* The records over the fields `keys`: each field is absent or has one of
\* its values
Records(keys) ==
    IF keys = {} THEN { EmptyDict }
    ELSE LET key == CHOOSE k \in keys : TRUE
         IN  { (IF present THEN key :> value ELSE EmptyDict) @@ rest :
                 present \in BOOLEAN, value \in FieldValues(key),
                 rest \in Records(keys \ {key}) }

\* Catalog records as format_dataset_summary is given them
Datasets == { Obj(r) : r \in Records(FieldNames) }

NoFmt == [pc |-> "none", dataset |-> Obj(EmptyDict), out |-> Return(None)]

\* format_dataset_summary(dataset) is called ...
FormatCall(dataset) ==
    /\ fmt.pc = "none"
    /\ fmt' = [pc |-> "in", dataset |-> dataset, out |-> Return(None)]
    /\ UNCHANGED <<calls, clients, last, requests, cls, shell, px, search, school, analyze>>

\* ... and ends
Format ==
    /\ fmt.pc = "in"
    /\ fmt' = [fmt EXCEPT !.pc = "out", !.out = format_dataset_summary(fmt.dataset)]
    /\ UNCHANGED <<calls, clients, last, requests, cls, shell, px, search, school, analyze>>

\* The caller has taken the summary
FormatReturn ==
    /\ fmt.pc = "out"
    /\ fmt' = NoFmt
    /\ UNCHANGED <<calls, clients, last, requests, cls, shell, px, search, school, analyze>>

FormatNext ==
    \/ \E dataset \in Datasets : FormatCall(dataset)
    \/ Format
    \/ FormatReturn

(* ------------- SpecSearch: zurich_search_datasets, one call ------------ *)

\* x[key] for a key that is a string
subscript(x, key) ==
    IF x.t = "obj"
    THEN IF key \in DOMAIN x.v THEN Return(x.v[key])
         ELSE Raise(Exc("KeyError", 0, "'" \o key \o "'"))
    ELSE IF x.t = "list" \/ x.t = "str"
    THEN Raise(Exc("TypeError", 0, TypeName(x) \o " indices must be integers"))
    ELSE Raise(Exc("TypeError", 0, "'" \o TypeName(x) \o "' object is not subscriptable"))

\* format_dataset_summary(ds) for whatever the result list holds
summary_of(ds) ==
    IF ds.t # "obj" THEN Raise(NoGetAttr(ds)) ELSE format_dataset_summary(ds)

RECURSIVE summary_lines(_)
\* for ds in datasets: lines.append(format_dataset_summary(ds)); lines.append("")
summary_lines(datasets) ==
    IF datasets = <<>> THEN Return(<<>>)
    ELSE LET first == summary_of(Head(datasets))
             rest == summary_lines(Tail(datasets))
         IN  IF first.kind = "raise" THEN first
             ELSE IF rest.kind = "raise" THEN rest
             ELSE Return(<<first.value.v, "">> \o rest.value)

\* The dictionary zurich_search_datasets passes to ckan_request
search_api_params(params) ==
    Obj(("q" :> Str(params.query)) @@ ("rows" :> Num(params.rows)) @@
        ("start" :> Num(params.offset)) @@
        (IF Truthy(params.sort) THEN "sort" :> params.sort ELSE EmptyDict) @@
        (IF Truthy(params.filter_group)
         THEN "fq" :> Str("groups:" \o params.filter_group.v)
         ELSE EmptyDict))

\* As next_page_hint, also when the page shown is the last one
next_page_hint_inclusive(total, offset, shown) ==
    IF total >= offset + shown
    THEN << "*→ Weitere Ergebnisse mit offset=" \o ToString(offset + shown) \o "*" >>
    ELSE << >>

\* if total > params.offset + len(datasets): lines.append(...)
next_page_hint(total, offset, shown) ==
    IF total > offset + shown
    THEN << "*→ Weitere Ergebnisse mit offset=" \o ToString(offset + shown) \o "*" >>
    ELSE << >>

\* The body of the try block after the await, given the outcome `ao` of
\* ckan_request
search_report(params, ao) ==
    IF ao.kind = "raise" THEN ao
    ELSE LET total == subscript(ao.value, "count")
             datasets == subscript(ao.value, "results")
         IN  IF total.kind = "raise" THEN total
             ELSE IF datasets.kind = "raise" THEN datasets
             ELSE IF ~Truthy(datasets.value)
             THEN Return(Str("Keine Datensätze gefunden für '" \o params.query \o "'."))
             ELSE IF datasets.value.t # "list"
             THEN Raise(Exc("TypeError", 0,
                            "object of type '" \o TypeName(datasets.value) \o "' has no len()"))
             ELSE LET shown == Len(datasets.value.v)
                      summaries == summary_lines(datasets.value.v)
                  IN  IF summaries.kind = "raise" THEN summaries
                      ELSE IF total.value.t # "int"
                      THEN Raise(Exc("TypeError", 0,
                                     "'>' not supported between instances of '"
                                         \o TypeName(total.value) \o "' and 'int'"))
                      ELSE Return(Str(join("\n",
                              << "## Suchergebnis: " \o PyStr(total.value)
                                     \o " Datensätze für '" \o params.query \o "'",
                                 "Zeige " \o ToString(shown) \o " von " \o PyStr(total.value)
                                     \o " (Offset: " \o ToString(params.offset) \o ")\n" >>
                              \o summaries.value
                              \o next_page_hint(total.value.v, params.offset, shown))))

\* try: ... except Exception as e: return handle_api_error(e, "Datensatzsuche")
zurich_search_datasets(params, ao) ==
    LET body == search_report(params, ao)
    IN  IF body.kind = "raise" /\ IsInstance(body.exc, "Exception")
        THEN handle_api_error(body.exc, "Datensatzsuche")
        ELSE body

\* Validated inputs of the tool (SearchDatasetsInput)
SearchInputs ==
    [query : {"Schule"}, rows : {1, 10}, offset : {0, 2},
     sort : {None, Str("title asc")}, filter_group : {None, Str("bildung")}]

\* Catalog records as package_search lists them
CatalogRecord(name, title, author) ==
    Obj(("name" :> Str(name)) @@ ("title" :> Str(title)) @@ ("author" :> Str(author)) @@
        ("notes" :> Str("Daten der Stadt.")) @@ ("num_resources" :> Num(1)))

CatalogRecords ==
    << CatalogRecord("schulferien", "Schulferien", "Schulamt"),
       CatalogRecord("sid_stzh_bev", "Bevölkerung", "Statistik Stadt Zürich"),
       CatalogRecord("geo_schulanlagen", "Schulanlagen", "Schulraumplanung") >>

\* The counts a package_search result reports, None when it reports null
SearchCounts == {None, Num(0), Num(1), Num(2), Num(3), Num(4), Num(5)}

\* A success envelope around `result`
SuccessEnvelope(result) == Obj(("success" :> Bool(TRUE)) @@ ("result" :> result))

\* The pages a package_search answers with: any count with the first zero to
\* three records
SearchPages ==
    { Obj(("count" :> count) @@ ("results" :> List(SubSeq(CatalogRecords, 1, n)))) :
        count \in SearchCounts, n \in 0..3 }

SearchReplies ==
    { Response(200, JsonBody(SuccessEnvelope(page))) : page \in SearchPages }
    \cup Replies("ckan_request")

NoSearch == [pc |-> "idle", params |-> [query |-> "", rows |-> 0, offset |-> 0,
                                         sort |-> None, filter_group |-> None],
             requests |-> <<>>, reply |-> Thrown(NoExc), adapter_outcome |-> Return(None),
             outcome |-> Return(None)]

\* The host calls the tool, which runs up to the await of ckan_request
SearchInvoke(params) ==
    /\ search.pc = "idle"
    /\ search' = [NoSearch EXCEPT !.pc = "awaiting", !.params = params,
                     !.requests = <<ckan_request_get("package_search",
                                                     search_api_params(params))>>]
    /\ UNCHANGED <<calls, clients, last, requests, cls, shell, px, fmt, school, analyze>>

\* The awaited request is answered and the tool runs to its end
SearchComplete(reply) ==
    /\ search.pc = "awaiting"
    /\ LET ao == ckan_request("package_search", search_api_params(search.params), reply)
       IN  search' = [search EXCEPT !.pc = "done", !.reply = reply, !.adapter_outcome = ao,
                                    !.outcome = zurich_search_datasets(search.params, ao)]
    /\ UNCHANGED <<calls, clients, last, requests, cls, shell, px, fmt, school, analyze>>

SearchDeliver == \E reply \in SearchReplies : SearchComplete(reply)

\* The host abandons the tool while it is suspended
SearchAbandon == SearchComplete(Thrown(CancelledError))

\* The host has taken the outcome
SearchReap ==
    /\ search.pc = "done"
    /\ search' = NoSearch
    /\ UNCHANGED <<calls, clients, last, requests, cls, shell, px, fmt, school, analyze>>

SearchNext ==
    \/ \E params \in SearchInputs : SearchInvoke(params)
    \/ SearchDeliver
    \/ SearchAbandon
    \/ SearchReap

(* ------------ SpecSchool: zurich_find_school_data, one call ------------ *)

\* search_terms as the handler first sets it
CuratedTerms ==
    << "Schule", "Volksschule", "Kindergarten", "Schulanlage", "Kreisschulbehörde",
       "Bildung", "Schulweg", "Musikschule", "Schulferien", "Sonderschule", "Kinderhort" >>

\* if params.topic: search_terms = [params.topic] + search_terms[:4]
search_terms(topic) ==
    IF Truthy(topic) THEN <<topic.v>> \o SubSeq(CuratedTerms, 1, 4) ELSE CuratedTerms

\* The dictionary the handler passes to ckan_request for one term
school_api_params(term) ==
    Obj(("q" :> Str(term)) @@ ("rows" :> Num(15)) @@ ("sort" :> Str("score desc")))

\* `sub in text`
str_in(sub, text) ==
    \E i \in 1..(Len(text) - Len(sub) + 1) : SubSeq(text, i, i + Len(sub) - 1) = sub

RECURSIVE merge_results_last(_, _, _)
\* As merge_results, a record seen again taking the place of the earlier one
merge_results_last(seen_ids, datasets, results) ==
    IF results = <<>> THEN Return([seen_ids |-> seen_ids, datasets |-> datasets])
    ELSE LET ds == Head(results)
             name == subscript(ds, "name")
         IN  IF name.kind = "raise" THEN name
             ELSE IF name.value.v \in seen_ids
             THEN merge_results_last(seen_ids,
                      [i \in 1..Len(datasets) |->
                          IF datasets[i].v["name"].v = name.value.v THEN ds ELSE datasets[i]],
                      Tail(results))
             ELSE merge_results_last(seen_ids \cup {name.value.v}, Append(datasets, ds),
                                     Tail(results))

RECURSIVE merge_results(_, _, _)
\* for ds in result["results"]: if ds["name"] not in seen_ids: ...
merge_results(seen_ids, datasets, results) ==
    IF results = <<>> THEN Return([seen_ids |-> seen_ids, datasets |-> datasets])
    ELSE LET ds == Head(results)
             name == subscript(ds, "name")
         IN  IF name.kind = "raise" THEN name
             ELSE IF name.value.v \in seen_ids
             THEN merge_results(seen_ids, datasets, Tail(results))
             ELSE merge_results(seen_ids \cup {name.value.v}, Append(datasets, ds),
                                Tail(results))

\* The loop body after the await: the result of one query merged into the
\* datasets collected so far
school_merge(seen_ids, datasets, ao) ==
    IF ao.kind = "raise" THEN ao
    ELSE LET results == subscript(ao.value, "results")
         IN  IF results.kind = "raise" THEN results
             ELSE IF results.value.t = "list"
             THEN merge_results(seen_ids, datasets, results.value.v)
             ELSE IF results.value.t \in {"obj", "str"} /\ ~Truthy(results.value)
             THEN Return([seen_ids |-> seen_ids, datasets |-> datasets])
             ELSE IF results.value.t \in {"obj", "str"}
             THEN Raise(Exc("TypeError", 0, "string indices must be integers"))
             ELSE Raise(Exc("TypeError", 0,
                            "'" \o TypeName(results.value) \o "' object is not iterable"))

\* author = ds.get("author", ""); the test of the grouping
by_schulamt(ds) ==
    LET author == DictGet(ds.v, "author", Str(""))
    IN  IF author.t # "str"
        THEN Raise(Exc("TypeError", 0,
                       "argument of type '" \o TypeName(author) \o "' is not iterable"))
        ELSE Return(str_in("Schulamt", author.v) \/ str_in("Schul-", author.v)
                        \/ str_in("Schulraumplanung", author.v))

\* The en dash of the Markdown texts; a TLA+ string cannot hold that
\* character, the hyphen stands for it
EnDash == "-"

\* One line of the list of the other datasets
other_line(ds) ==
    LET title == subscript(ds, "title")
    IN  IF title.kind = "raise" THEN title
        ELSE Return(Str("- **" \o PyStr(title.value) \o "** (" \o Backtick
                            \o PyStr(ds.v["name"]) \o Backtick \o ") " \o EnDash \o " "
                            \o PyStr(DictGet(ds.v, "author", Str("?")))))

RECURSIVE other_lines(_)
other_lines(datasets) ==
    IF datasets = <<>> THEN Return(<<>>)
    ELSE LET first == other_line(Head(datasets))
             rest == other_lines(Tail(datasets))
         IN  IF first.kind = "raise" THEN first
             ELSE IF rest.kind = "raise" THEN rest
             ELSE Return(<<first.value.v>> \o rest.value)

\* The report built from the merged list, after the last query
school_report(datasets) ==
    IF \E i \in 1..Len(datasets) : by_schulamt(datasets[i]).kind = "raise"
    THEN by_schulamt(datasets[CHOOSE i \in 1..Len(datasets) :
                        /\ by_schulamt(datasets[i]).kind = "raise"
                        /\ \A j \in 1..(i - 1) : by_schulamt(datasets[j]).kind = "return"])
    ELSE LET IsSchulamt(ds) == by_schulamt(ds).value
             IsOther(ds) == ~by_schulamt(ds).value
             schulamt_ds == SelectSeq(datasets, IsSchulamt)
             other_ds == SelectSeq(datasets, IsOther)
             summaries == summary_lines(schulamt_ds)
             others == other_lines(SubSeq(other_ds, 1, IF Len(other_ds) < 15
                                                        THEN Len(other_ds) ELSE 15))
         IN  IF schulamt_ds # <<>> /\ summaries.kind = "raise" THEN summaries
             ELSE IF other_ds # <<>> /\ others.kind = "raise" THEN others
             ELSE Return(Str(join("\n",
                     << "## Schulrelevante Datensätze",
                        "**" \o ToString(Len(datasets)) \o " Treffer** (zeige "
                            \o ToString(Len(datasets)) \o ")\n" >>
                     \o (IF schulamt_ds # <<>>
                         THEN <<"### Vom Schulamt / SSD">> \o summaries.value ELSE <<>>)
                     \o (IF other_ds # <<>>
                         THEN <<"### Weitere relevante Datensätze">> \o others.value
                         ELSE <<>>))))

\* except Exception as e: return handle_api_error(e, "Schuldaten-Suche")
school_except(body) ==
    IF body.kind = "raise" /\ IsInstance(body.exc, "Exception")
    THEN handle_api_error(body.exc, "Schuldaten-Suche")
    ELSE body

\* FindSchoolDataInput.topic after validation
SchoolTopics == {None, Str(""), Str("Ferien")}

\* A later entry of the catalog under the name of the first record
RenamedRecord == CatalogRecord("schulferien", "Ferien der Volksschule", "Schulamt")

\* The result lists a package_search answers the handler with
SchoolPages ==
    { <<>>,
      <<CatalogRecords[1], CatalogRecords[2]>>,
      <<CatalogRecords[2], RenamedRecord, CatalogRecords[3]>>,
      <<CatalogRecords[3], CatalogRecords[3], CatalogRecords[1]>> }

SchoolReplies ==
    { Response(200, JsonBody(SuccessEnvelope(
          Obj(("count" :> Num(Len(page))) @@ ("results" :> List(page)))))) :
        page \in SchoolPages }
    \cup { Response(200, JsonBody(SuccessEnvelope(SearchResult))),
           Response(200, JsonBody(DeniedEnvelope)),
           Response(200, TextBody) }
    \cup { Response(st, JsonBody(DeniedEnvelope)) : st \in ErrorStatuses }
    \cup { Thrown(e) : e \in TransportErrors }

NoSchool == [pc |-> "idle", topic |-> None, requests |-> <<>>, seen_ids |-> {},
             datasets |-> <<>>, reply |-> Thrown(NoExc), adapter_outcome |-> Return(None),
             outcome |-> Return(None)]

\* The host calls the tool, which runs up to the await of the first query
SchoolInvoke(topic) ==
    /\ school.pc = "idle"
    /\ school' = [NoSchool EXCEPT !.pc = "awaiting", !.topic = topic,
                     !.requests = <<ckan_request_get("package_search",
                                        school_api_params(search_terms(topic)[1]))>>]
    /\ UNCHANGED <<calls, clients, last, requests, cls, shell, px, fmt, search, analyze>>

\* The awaited query is answered; the handler merges the result and runs up
\* to the await of the next query, or to its end
SchoolResume(reply) ==
    /\ school.pc = "awaiting"
    /\ LET terms == search_terms(school.topic)
           sent == Len(school.requests)
           ao == ckan_request("package_search", school_api_params(terms[sent]), reply)
           merged == school_merge(school.seen_ids, school.datasets, ao)
       IN  IF merged.kind = "raise"
           THEN school' = [school EXCEPT !.pc = "done", !.reply = reply,
                                         !.adapter_outcome = ao,
                                         !.outcome = school_except(merged)]
           ELSE IF sent < Len(terms)
           THEN school' = [school EXCEPT !.reply = reply, !.adapter_outcome = ao,
                              !.seen_ids = merged.value.seen_ids,
                              !.datasets = merged.value.datasets,
                              !.requests = Append(@, ckan_request_get("package_search",
                                                        school_api_params(terms[sent + 1])))]
           ELSE school' = [school EXCEPT !.pc = "done", !.reply = reply,
                              !.adapter_outcome = ao,
                              !.seen_ids = merged.value.seen_ids,
                              !.datasets = merged.value.datasets,
                              !.outcome = school_except(school_report(merged.value.datasets))]
    /\ UNCHANGED <<calls, clients, last, requests, cls, shell, px, fmt, search, analyze>>

SchoolDeliver == \E reply \in SchoolReplies : SchoolResume(reply)

\* The host abandons the tool while a query is awaited
SchoolAbandon == SchoolResume(Thrown(CancelledError))

\* The host has taken the outcome
SchoolReap ==
    /\ school.pc = "done"
    /\ school' = NoSchool
    /\ UNCHANGED <<calls, clients, last, requests, cls, shell, px, fmt, search, analyze>>

SchoolNext ==
    \/ \E topic \in SchoolTopics : SchoolInvoke(topic)
    \/ SchoolDeliver
    \/ SchoolAbandon
    \/ SchoolReap

(* ----------- SpecAnalyze: zurich_analyze_datasets, one call ------------ *)

\* The dictionary of the initial package_search
analyze_api_params(params) ==
    Obj(("q" :> Str(params.query)) @@ ("rows" :> Num(params.max_datasets)) @@
        ("sort" :> Str("score desc")))

\* The dictionary of one datastore_search probe
probe_api_params(res) ==
    Obj(("resource_id" :> res.v["id"]) @@ ("limit" :> Num(0)))

\* Three digits of a group after the first
pad3(n) ==
    IF n < 10 THEN "00" \o ToString(n) ELSE IF n < 100 THEN "0" \o ToString(n) ELSE ToString(n)

RECURSIVE group_digits(_)
\* format(n, ","): groups of three digits separated by commas
group_digits(n) ==
    IF n < 1000 THEN ToString(n)
    ELSE group_digits(n \div 1000) \o "," \o pad3(n % 1000)

\* f"{total_records:,}"
format_thousands(x) ==
    IF x.t = "int" THEN Return(group_digits(x.v))
    ELSE IF x.t = "str" THEN Raise(Exc("ValueError", 0, "Cannot specify ',' with 's'."))
    ELSE Raise(Exc("TypeError", 0,
                   "unsupported format string passed to " \o TypeName(x) \o ".__format__"))

RECURSIVE field_list(_)
\* [f"`{f['id']}` ({f.get('type', '?')})" for f in fields if f["id"] != "_id"]
field_list(fields) ==
    IF fields = <<>> THEN Return(<<>>)
    ELSE LET f == Head(fields)
             id == subscript(f, "id")
             rest == field_list(Tail(fields))
         IN  IF id.kind = "raise" THEN id
             ELSE IF rest.kind = "raise" THEN rest
             ELSE IF id.value.t = "str" /\ id.value.v = "_id" THEN rest
             ELSE Return(<< Backtick \o PyStr(id.value) \o Backtick \o " ("
                                \o PyStr(DictGet(f.v, "type", Str("?"))) \o ")" >>
                         \o rest.value)

\* The body of the inner try after the await, given the outcome `ao` of the
\* probe: the lines it appends
probe_lines(ao) ==
    IF ao.kind = "raise" THEN ao
    ELSE IF ao.value.t # "obj" THEN Raise(NoGetAttr(ao.value))
    ELSE LET fields == DictGet(ao.value.v, "fields", List(<<>>))
             total_records == DictGet(ao.value.v, "total", Num(0))
             listed == IF fields.t = "list" THEN field_list(fields.v)
                       ELSE Raise(Exc("TypeError", 0,
                                      "'" \o TypeName(fields) \o "' object is not iterable"))
             entries == format_thousands(total_records)
         IN  IF listed.kind = "raise" THEN listed
             ELSE IF entries.kind = "raise" THEN entries
             ELSE Return(<< "- **DataStore-Einträge**: " \o entries.value,
                            "- **Felder**: "
                                \o join(", ", SubSeq(listed.value, 1,
                                                     IF Len(listed.value) < 15
                                                     THEN Len(listed.value) ELSE 15)) >>
                         \o (IF Len(listed.value) > 15
                             THEN << "  *(und " \o ToString(Len(listed.value) - 15)
                                         \o " weitere)*" >>
                             ELSE << >>))

\* As probe_result, a failed probe reported in the text
probe_result_reported(ao) ==
    LET body == probe_lines(ao)
    IN  IF body.kind = "return" THEN [kind |-> "break", lines |-> body.value, exc |-> NoExc]
        ELSE IF IsInstance(body.exc, "Exception")
        THEN [kind |-> "pass", exc |-> NoExc,
              lines |-> << "- " \o handle_api_error(body.exc, "DataStore").value.v >>]
        ELSE [kind |-> "raise", lines |-> <<>>, exc |-> body.exc]

\* try: ...; break / except Exception: pass
probe_result(ao) ==
    LET body == probe_lines(ao)
    IN  IF body.kind = "return" THEN [kind |-> "break", lines |-> body.value, exc |-> NoExc]
        ELSE IF IsInstance(body.exc, "Exception")
        THEN [kind |-> "pass", lines |-> <<>>, exc |-> NoExc]
        ELSE [kind |-> "raise", lines |-> <<>>, exc |-> body.exc]

\* resources = ds.get("resources", [])
resources_of(ds) == DictGet(ds.v, "resources", List(<<>>))

\* sorted(set(r.get("format", "?") for r in resources)), joined
formats_of(resources) ==
    IF resources.t # "list"
    THEN Raise(Exc("TypeError", 0, "'" \o TypeName(resources) \o "' object is not iterable"))
    ELSE IF \E i \in 1..Len(resources.v) : resources.v[i].t # "obj"
    THEN Raise(NoGetAttr(resources.v[CHOOSE i \in 1..Len(resources.v) :
                            /\ resources.v[i].t # "obj"
                            /\ \A j \in 1..(i - 1) : resources.v[j].t = "obj"]))
    ELSE LET formats == { DictGet(resources.v[i].v, "format", Str("?")) :
                            i \in 1..Len(resources.v) }
         IN  IF \E f \in formats : f.t # "str"
             THEN Raise(Exc("TypeError", 0, "sequence item 0: expected str instance"))
             ELSE Return(join(", ", sorted({ f.v : f \in formats })))

\* The lines of dataset number i up to the probes
dataset_lines(params, ds, i) ==
    IF ds.t # "obj" THEN Raise(NoGetAttr(ds))
    ELSE LET name == DictGet(ds.v, "name", Str(""))
             title == DictGet(ds.v, "title", Str("?"))
             modified == slice(DictGet(ds.v, "metadata_modified", Str("?")), 10)
             interval == DictGet(ds.v, "updateInterval", List(<<Str("unbekannt")>>))
             formats == formats_of(resources_of(ds))
             intervals == comma_join(interval)
         IN  IF modified.kind = "raise" THEN modified
             ELSE IF formats.kind = "raise" THEN formats
             ELSE IF params.include_freshness /\ intervals.kind = "raise" THEN intervals
             ELSE Return(<< "### " \o ToString(i) \o ". " \o PyStr(title),
                            "- **ID**: " \o Backtick \o PyStr(name) \o Backtick,
                            "- **Formate**: " \o formats.value,
                            "- **Ressourcen**: " \o ToString(Len(resources_of(ds).v)) >>
                         \o (IF params.include_freshness
                             THEN << "- **Letzte Änderung**: " \o PyStr(modified.value),
                                     "- **Aktualisierung**: " \o intervals.value.v >>
                             ELSE << >>))

\* lines.append(f"- **URL**: {CKAN_BASE_URL}/dataset/{name}\n")
url_line(ds) ==
    "- **URL**: " \o CKAN_BASE_URL \o "/dataset/" \o PyStr(DictGet(ds.v, "name", Str(""))) \o "\n"

\* if res.get("datastore_active")
datastore_active(res) == Truthy(DictGet(res.v, "datastore_active", None))

RECURSIVE scan(_, _, _, _, _)
\* The handler runs on from before resource ri of dataset di, whose lines up
\* to the probes are in `lines`: to the await of the next probe (pc
\* "probing"), to its return (body: the report) or to an exception raised
\* outside the inner try (body: raise)
scan(params, datasets, di, ri, lines) ==
    LET resources == resources_of(datasets[di]).v
    IN  IF params.include_structure /\ ri <= Len(resources)
        THEN IF datastore_active(resources[ri])
             THEN [pc |-> "probing", di |-> di, ri |-> ri, lines |-> lines,
                   body |-> Return(None)]
             ELSE scan(params, datasets, di, ri + 1, lines)
        ELSE LET closed == Append(lines, url_line(datasets[di]))
             IN  IF di = Len(datasets)
                 THEN [pc |-> "done", di |-> di, ri |-> ri, lines |-> closed,
                       body |-> Return(Str(join("\n", closed)))]
                 ELSE LET head == dataset_lines(params, datasets[di + 1], di + 1)
                      IN  IF head.kind = "raise"
                          THEN [pc |-> "done", di |-> di + 1, ri |-> 0, lines |-> closed,
                                body |-> head]
                          ELSE scan(params, datasets, di + 1, 1, closed \o head.value)

\* The handler from the answer of the initial search to its first probe or
\* its end
analyze_start(params, ao) ==
    LET stop(body) == [pc |-> "done", di |-> 0, ri |-> 0, lines |-> <<>>, body |-> body,
                       datasets |-> <<>>]
    IN  IF ao.kind = "raise" THEN stop(ao)
        ELSE LET datasets == subscript(ao.value, "results")
                 total == subscript(ao.value, "count")
             IN  IF datasets.kind = "raise" THEN stop(datasets)
                 ELSE IF total.kind = "raise" THEN stop(total)
                 ELSE IF ~Truthy(datasets.value)
                 THEN stop(Return(Str("Keine Datensätze gefunden für '"
                                          \o params.query \o "'.")))
                 ELSE IF datasets.value.t # "list"
                 THEN stop(Raise(Exc("TypeError", 0,
                                     "object of type '" \o TypeName(datasets.value)
                                         \o "' has no len()")))
                 ELSE LET head == dataset_lines(params, datasets.value.v[1], 1)
                          top == << "## Analyse: '" \o params.query \o "'",
                                    "**" \o PyStr(total.value) \o " Datensätze gefunden**, Top "
                                        \o ToString(Len(datasets.value.v))
                                        \o " analysiert:\n" >>
                      IN  IF head.kind = "raise" THEN stop(head)
                          ELSE scan(params, datasets.value.v, 1, 1, top \o head.value)
                                   @@ [datasets |-> datasets.value.v]

\* except Exception as e: return handle_api_error(e, "Datensatz-Analyse")
analyze_except(body) ==
    IF body.kind = "raise" /\ IsInstance(body.exc, "Exception")
    THEN handle_api_error(body.exc, "Datensatz-Analyse")
    ELSE body

\* Validated inputs of the tool (AnalyzeDatasetInput)
AnalyzeInputs ==
    [query : {"Schule"}, max_datasets : {5}, include_structure : BOOLEAN,
     include_freshness : BOOLEAN]

\* A resource of a catalog record; `active` None: the record has no
\* datastore_active field
CatalogResource(id, format, active) ==
    Obj(("id" :> Str(id)) @@ ("format" :> Str(format)) @@
        (IF active.t = "null" THEN EmptyDict ELSE "datastore_active" :> active))

\* The catalog record `ds` with the resources `resources`
with_resources(ds, resources) == Obj(ds.v @@ ("resources" :> List(resources)))

\* Catalog records with their resources; the second one has no resources
\* field
AnalyzedRecords ==
    << with_resources(CatalogRecords[1],
           << CatalogResource("r1", "csv", Bool(TRUE)),
              CatalogResource("r2", "json", Bool(FALSE)),
              CatalogResource("r3", "csv", Bool(TRUE)),
              CatalogResource("r4", "parquet", Bool(TRUE)) >>),
       CatalogRecords[2],
       with_resources(CatalogRecords[3],
           << CatalogResource("r5", "wms", None),
              CatalogResource("r6", "csv", Bool(TRUE)) >>) >>

\* The result lists the initial package_search answers with
AnalyzedPages ==
    { <<>>,
      <<AnalyzedRecords[1]>>,
      <<AnalyzedRecords[2], AnalyzedRecords[1]>>,
      <<AnalyzedRecords[3], AnalyzedRecords[1], AnalyzedRecords[2]>> }

\* Replies to a catalog request that make ckan_request raise
FailureReplies ==
    { Response(200, JsonBody(DeniedEnvelope)), Response(200, TextBody) }
    \cup { Response(st, JsonBody(DeniedEnvelope)) : st \in ErrorStatuses }
    \cup { Thrown(e) : e \in TransportErrors }

AnalyzeReplies ==
    { Response(200, JsonBody(SuccessEnvelope(
          Obj(("count" :> Num(120)) @@ ("results" :> List(page)))))) :
        page \in AnalyzedPages }
    \cup { Response(200, JsonBody(SuccessEnvelope(SearchResult))) }
    \cup FailureReplies

\* The results of a datastore_search with limit 0
DatastoreInfos ==
    { Obj(("fields" :> List(<< Obj(("id" :> Str("_id")) @@ ("type" :> Str("int"))),
                               Obj(("id" :> Str("jahr")) @@ ("type" :> Str("int4"))),
                               Obj("id" :> Str("name")) >>)) @@
          ("total" :> Num(1234))),
      Obj(EmptyDict) }

\* Results of a datastore_search that the handler cannot read
UnreadableInfos ==
    { List(<<>>),
      Obj("fields" :> List(<< Obj("type" :> Str("text")) >>)),
      Obj("total" :> Str("12")) }

ProbeReplies ==
    { Response(200, JsonBody(SuccessEnvelope(info))) :
        info \in DatastoreInfos \cup UnreadableInfos }
    \cup FailureReplies

NoAnalyze == [pc |-> "idle",
              params |-> [query |-> "", max_datasets |-> 0, include_structure |-> FALSE,
                          include_freshness |-> FALSE],
              requests |-> <<>>, datasets |-> <<>>, di |-> 0, ri |-> 0, lines |-> <<>>,
              reply |-> Thrown(NoExc), adapter_outcome |-> Return(None),
              outcome |-> Return(None)]

\* The resource the suspended probe is about
probed_resource(a) == resources_of(a.datasets[a.di]).v[a.ri]

\* The handler after a run `st` up to its next await or to its end
analyze_after(a, reply, ao, st) ==
    [a EXCEPT !.pc = st.pc, !.di = st.di, !.ri = st.ri, !.lines = st.lines,
              !.reply = reply, !.adapter_outcome = ao,
              !.requests = IF st.pc = "probing"
                           THEN Append(@, ckan_request_get("datastore_search",
                                    probe_api_params(
                                        resources_of(a.datasets[st.di]).v[st.ri])))
                           ELSE @,
              !.outcome = IF st.pc = "done" THEN analyze_except(st.body) ELSE Return(None)]

\* The host calls the tool, which runs up to the await of the search
AnalyzeInvoke(params) ==
    /\ analyze.pc = "idle"
    /\ analyze' = [NoAnalyze EXCEPT !.pc = "searching", !.params = params,
                      !.requests = <<ckan_request_get("package_search",
                                                      analyze_api_params(params))>>]
    /\ UNCHANGED <<calls, clients, last, requests, cls, shell, px, fmt, search, school>>

\* The search is answered; the handler runs up to the await of its first
\* probe, or to its end
AnalyzeSearched(reply) ==
    /\ analyze.pc = "searching"
    /\ LET ao == ckan_request("package_search", analyze_api_params(analyze.params), reply)
           st == analyze_start(analyze.params, ao)
       IN  analyze' = analyze_after([analyze EXCEPT !.datasets = st.datasets], reply, ao, st)
    /\ UNCHANGED <<calls, clients, last, requests, cls, shell, px, fmt, search, school>>

\* A probe is answered; the handler runs up to the await of its next probe,
\* or to its end
AnalyzeProbed(reply) ==
    /\ analyze.pc = "probing"
    /\ LET ao == ckan_request("datastore_search",
                              probe_api_params(probed_resource(analyze)), reply)
           probe == probe_result(ao)
           resources == resources_of(analyze.datasets[analyze.di]).v
           st == IF probe.kind = "raise"
                 THEN [pc |-> "done", di |-> analyze.di, ri |-> analyze.ri,
                       lines |-> analyze.lines, body |-> Raise(probe.exc)]
                 ELSE scan(analyze.params, analyze.datasets, analyze.di,
                           IF probe.kind = "break" THEN Len(resources) + 1
                           ELSE analyze.ri + 1,
                           analyze.lines \o probe.lines)
       IN  analyze' = analyze_after(analyze, reply, ao, st)
    /\ UNCHANGED <<calls, clients, last, requests, cls, shell, px, fmt, search, school>>

AnalyzeSearchDeliver == \E reply \in AnalyzeReplies : AnalyzeSearched(reply)

AnalyzeProbeDeliver == \E reply \in ProbeReplies : AnalyzeProbed(reply)

\* The host abandons the tool while it is suspended
AnalyzeAbandon ==
    \/ AnalyzeSearched(Thrown(CancelledError))
    \/ AnalyzeProbed(Thrown(CancelledError))

\* The host has taken the outcome
AnalyzeReap ==
    /\ analyze.pc = "done"
    /\ analyze' = NoAnalyze
    /\ UNCHANGED <<calls, clients, last, requests, cls, shell, px, fmt, search, school>>

AnalyzeNext ==
    \/ \E params \in AnalyzeInputs : AnalyzeInvoke(params)
    \/ AnalyzeSearchDeliver
    \/ AnalyzeProbeDeliver
    \/ AnalyzeAbandon
    \/ AnalyzeReap

(* --------------------------- specifications ---------------------------- *)

Init ==
    /\ AdapterInit
    /\ cls = NoCls /\ shell = NoShell /\ px = NoPx /\ fmt = NoFmt
    /\ search = NoSearch /\ school = NoSchool /\ analyze = NoAnalyze

Next ==
    \E c \in CallIds :
        \/ \E call \in AdapterCalls : Call(c, call)
        \/ Resume(c)
        \/ Cancel(c)
        \/ Retire(c)

Spec == Init /\ [][Next]_vars

ShellNext ==
    \/ \E h \in DOMAIN Handlers : \E params \in HandlerParams(h) : Invoke(h, params)
    \/ Deliver
    \/ Abandon
    \/ Reap

SpecShell == Init /\ [][ShellNext]_vars

SpecParis == Init /\ [][ParisNext]_vars

SpecFormat == Init /\ [][FormatNext]_vars

SpecSearch == Init /\ [][SearchNext]_vars

SpecSchool == Init /\ [][SchoolNext]_vars

SpecAnalyze == Init /\ [][AnalyzeNext]_vars

ClassifyNext ==
    \/ \E e \in Failures, context \in Contexts : ClassifyCall(e, context)
    \/ Classify

SpecClassify == Init /\ [][ClassifyNext]_vars

(* ============================ properties ============================== *)

StartsWith(s, p) == Len(p) <= Len(s) /\ SubSeq(s, 1, Len(p)) = p

Contains(s, sub) ==
    \E i \in 1..(Len(s) - Len(sub) + 1) : SubSeq(s, i, i + Len(sub) - 1) = sub

\* The finished call was a ckan_request whose 2xx response decoded to a mapping
DecodedEnvelope ==
    /\ last.call.adapter = "ckan_request"
    /\ last.reply.kind = "response"
    /\ last.reply.status \in 200..299
    /\ last.reply.body.kind = "json"
    /\ last.reply.body.doc.t = "obj"

Envelope == last.reply.body.doc.v

SuccessFalse == DecodedEnvelope /\ "success" \in DOMAIN Envelope /\ Envelope["success"] = Bool(FALSE)

SuccessTrue == DecodedEnvelope /\ "success" \in DOMAIN Envelope /\ Envelope["success"] = Bool(TRUE)

HasMessage ==
    /\ "error" \in DOMAIN Envelope
    /\ Envelope["error"].t = "obj"
    /\ "message" \in DOMAIN Envelope["error"].v

C2_ReturnsResult ==
    (SuccessTrue /\ "result" \in DOMAIN Envelope) =>
        /\ last.outcome = Return(Envelope["result"])
        /\ last.outcome.value # last.reply.body.doc
        /\ last.outcome.value.v["count"] = Num(120)
        /\ Len(last.outcome.value.v["results"].v) = 3

C2_Witness ==
    /\ SuccessTrue
    /\ "result" \in DOMAIN Envelope
    /\ last.reply.status = 201
    /\ last.outcome.kind = "return"
    /\ last.outcome.value = SearchResult

\* C3 as stated: for an envelope with success=true and no result field,
\* ckan_request fails with the failure kind it uses for success=false
\* (RuntimeError) and returns no value.
C3_AsStated ==
    (SuccessTrue /\ "result" \notin DOMAIN Envelope) =>
        /\ last.outcome.kind = "raise"
        /\ last.outcome.exc.type = "RuntimeError"

\* C4: for every adapter and every response with a non-2xx status, the call
\* raises an HTTPStatusError carrying that status and returns nothing.
C4_HttpStatusFailure ==
    (last.reply.kind = "response" /\ last.reply.status \notin 200..299) =>
        /\ last.outcome.kind = "raise"
        /\ last.outcome.exc.type = "HTTPStatusError"
        /\ last.outcome.exc.status = last.reply.status
        /\ last.outcome.value = None

\* A 304 carrying a decodable body was raised as an HTTP-status failure
C4_Witness ==
    /\ last.call.adapter \in {"wfs_get_features", "sparql_query", "paris_search",
                              "http_get_json", "ckan_request"}
    /\ last.reply.kind = "response"
    /\ last.reply.status = 304
    /\ last.reply.body.kind # "text"
    /\ last.outcome.kind = "raise"
    /\ last.outcome.exc.status = 304

\* The prefix a message gets from its context label
ContextPrefix(context) ==
    IF context = "" THEN "Fehler: " ELSE "Fehler bei " \o context \o ": "

\* The fixed texts of the three status categories
CategoryText(status) ==
    CASE status = 404 -> "Ressource nicht gefunden. Bitte ID/Name prüfen."
      [] status = 403 -> "Zugriff verweigert."
      [] status = 429 -> "Zu viele Anfragen. Bitte warten."

Classified == cls.pc = "out"

\* C5: for an HTTP-status failure with status 404, 403 or 429 and any
\* context, handle_api_error returns the context prefix followed by the fixed
\* text of the status category, so that only the prefix varies with context.
C5_FixedCategory ==
    (Classified /\ cls.e.type = "HTTPStatusError" /\ cls.e.status \in {404, 403, 429}) =>
        cls.out = Return(Str(ContextPrefix(cls.context) \o CategoryText(cls.e.status)))

C5_Witness ==
    /\ Classified
    /\ cls.e.type = "HTTPStatusError"
    /\ cls.e.status = 403
    /\ cls.context = "Wetterdaten"
    /\ cls.out.value = Str("Fehler bei Wetterdaten: Zugriff verweigert.")

\* C6: for the remaining failures handle_api_error returns, in this order of
\* priority: for an HTTP-status failure with another status the generic text
\* with the status code; for a timeout the timed-out text; for anything else
\* the failure's type name and description.
C6_Remaining ==
    Classified =>
        IF cls.e.type = "HTTPStatusError"
        THEN cls.e.status \notin {404, 403, 429} =>
                cls.out = Return(Str(ContextPrefix(cls.context) \o "HTTP-Fehler "
                                      \o ToString(cls.e.status)))
        ELSE IF cls.e.type \in {"ReadTimeout", "ConnectTimeout"}
        THEN cls.out = Return(Str(ContextPrefix(cls.context)
                                   \o "Zeitüberschreitung. Bitte erneut versuchen."))
        ELSE cls.out = Return(Str(ContextPrefix(cls.context) \o cls.e.type \o ": " \o cls.e.msg))

C6_Witness ==
    /\ Classified
    /\ cls.e.type = "ReadTimeout"
    /\ cls.out.value = Str("Fehler bei Kategorien: Zeitüberschreitung. Bitte erneut versuchen.")

\* C7: for every failure of the taxonomy (HTTP status, timeout, protocol
\* error, parse error, generic) and every context, handle_api_error returns a
\* string and never raises.
C7_Total ==
    Classified => (cls.out.kind = "return" /\ cls.out.value.t = "str" /\ cls.out.exc = NoExc)

C7_Witness ==
    /\ Classified
    /\ cls.e.type = "ConnectError"
    /\ cls.context = ""
    /\ cls.out.kind = "return"

\* C8: every message handle_api_error returns starts with the prefix built
\* from the context, which names the context label when there is one, and the
\* category text follows it.
C8_Prefixed ==
    Classified =>
        /\ StartsWith(cls.out.value.v, "Fehler")
        /\ StartsWith(cls.out.value.v, ContextPrefix(cls.context))
        /\ Len(cls.out.value.v) > Len(ContextPrefix(cls.context))
        /\ cls.context # "" => SubSeq(cls.out.value.v, 12, 11 + Len(cls.context)) = cls.context

C8_Witness ==
    /\ Classified
    /\ cls.e.type = "ParseError"
    /\ cls.context = "Geschäftssuche Gemeinderat"
    /\ StartsWith(cls.out.value.v, "Fehler bei Geschäftssuche Gemeinderat: ParseError")

\* The adapter awaited by the handler raised a failure
AdapterFailed ==
    /\ shell.pc = "done"
    /\ shell.adapter_outcome.kind = "raise"
    /\ shell.adapter_outcome.exc.type # "CancelledError"

\* C9 as stated: every adapter failure that occurs while a tool or resource
\* handler serves a call is caught in the handler and returned as the
\* classifier's message; none propagates out of the handler.
C9_AsStated ==
    AdapterFailed =>
        /\ shell.outcome.kind = "return"
        /\ shell.outcome.value.t = "str"
        /\ StartsWith(shell.outcome.value.v, "Fehler")

\* C10: whichever way an adapter call ends (return, raised failure,
\* cancellation while suspended) the client it opened is closed: only a
\* suspended call has an open client, and none is open when no call is in
\* flight.
C10_ClientReleased ==
    /\ \A c \in CallIds : clients[c].state = "open" <=> calls[c].pc = "awaiting"
    /\ \A c \in CallIds : calls[c].pc = "done" => clients[c].state = "closed"
    /\ (\A c \in CallIds : calls[c].pc # "awaiting") =>
           (\A c \in CallIds : clients[c].state # "open")

\* No call is in flight, the last one was cancelled and another failed, and
\* both clients are closed
C10_Witness ==
    /\ last.reply = Thrown(CancelledError)
    /\ last.outcome.kind = "raise"
    /\ \A c \in CallIds : calls[c].pc = "done" /\ clients[c].state = "closed"

\* C11: every adapter call issues exactly one HTTP request: one while it is
\* suspended and none after it was answered, whatever the answer; a timeout
\* is raised to the caller as it is.
C11_SingleAttempt ==
    /\ \A c \in CallIds :
          Len(requests[c]) = (IF calls[c].pc = "awaiting" THEN 1 ELSE 0)
    /\ last # NoLast =>
          /\ Len(last.requests) = 1
          /\ last.requests[1].url = RequestOf(last.call).url
    /\ (last.reply.kind = "thrown" /\ last.reply.exc.type \in {"ReadTimeout", "ConnectTimeout"}) =>
          last.outcome = Raise(last.reply.exc)

C11_Witness ==
    /\ last.call.adapter = "wfs_get_features"
    /\ last.reply = Thrown(Exc("ReadTimeout", 0, ""))
    /\ Len(last.requests) = 1
    /\ last.outcome.kind = "raise"

\* A suspended call works with a client that is open and that no other
\* suspended call works with
OwnClient(c) ==
    calls[c].pc = "awaiting" =>
        /\ clients[calls[c].client].state = "open"
        /\ \A d \in CallIds \ {c} :
              calls[d].pc = "awaiting" => calls[d].client # calls[c].client

\* C12: under any interleaving of adapter calls, each call has a client of
\* its own, and when a call ends its outcome is that of its own invocation
\* and reply while the other calls, their clients and their requests are left
\* as they were.
C12_Independent ==
    [][ \A c \in CallIds :
          /\ OwnClient(c)'
          /\ (calls[c].pc = "awaiting" /\ calls'[c].pc = "done") =>
                /\ last'.call = calls[c].call
                /\ last'.outcome = RunAdapter(calls[c].call, last'.reply)
                /\ \A d \in CallIds \ {c} :
                      /\ calls'[d] = calls[d]
                      /\ clients'[d] = clients[d]
                      /\ requests'[d] = requests[d] ]_vars

\* Two calls are suspended at once, each on its own open client, after
\* another call has ended
C12_Witness ==
    /\ last # NoLast
    /\ \E c, d \in CallIds :
          /\ c # d
          /\ calls[c].pc = "awaiting" /\ calls[d].pc = "awaiting"
          /\ calls[c].call # calls[d].call
          /\ clients[c].state = "open" /\ clients[d].state = "open"

RECURSIVE word_len(_)
\* The number of characters in front of the first whitespace of s
word_len(s) ==
    IF s = "" \/ SubSeq(s, 1, 1) \in Whitespace THEN 0
    ELSE 1 + word_len(SubSeq(s, 2, Len(s)))

RECURSIVE words(_)
\* The whitespace-separated words of s
words(s) ==
    LET t == lstrip(s)
    IN  IF t = "" THEN <<>>
        ELSE <<SubSeq(t, 1, word_len(t))>> \o words(SubSeq(t, word_len(t) + 1, Len(t)))

RECURSIVE form_of(_)
\* The first keyword behind the prologue (BASE <iri> and PREFIX name: <iri>
\* declarations) of a query given as its words
form_of(ws) ==
    IF Len(ws) = 0 THEN ""
    ELSE IF upper(ws[1]) = "PREFIX" THEN form_of(SubSeq(ws, 4, Len(ws)))
    ELSE IF upper(ws[1]) = "BASE" THEN form_of(SubSeq(ws, 3, Len(ws)))
    ELSE upper(ws[1])

\* The SPARQL query form of a query text: SELECT, ASK, CONSTRUCT, DESCRIBE,
\* or an update operation
QueryForm(query) == form_of(words(query))

SparqlServed == shell.handler = "zurich_sparql" /\ shell.pc # "idle"

\* C13 as stated: zurich_sparql forwards a query to the SPARQL adapter only
\* when it is a SELECT query; for every other query it returns "Nur
\* SELECT-Abfragen sind erlaubt." and issues no HTTP request; a query that is
\* forwarded is sent by sparql_query as it was given.
C13_AsStated ==
    SparqlServed =>
        /\ QueryForm(shell.call.args.query) # "SELECT" =>
              /\ shell.pc = "done"
              /\ shell.outcome = Return(Str("Nur SELECT-Abfragen sind erlaubt."))
              /\ shell.requests = <<>>
        /\ \A i \in 1..Len(shell.requests) :
              /\ shell.requests[i].url = SPARQL_URL
              /\ shell.requests[i].params = ("query" :> Str(shell.call.args.query))

\* The answer to the handler's request is a 2xx response whose document has
\* an empty bindings sequence
EmptyBindings ==
    /\ shell.reply.kind = "response" /\ is_success(shell.reply.status)
    /\ shell.reply.body.kind = "json" /\ shell.reply.body.doc.t = "obj"
    /\ "results" \in DOMAIN shell.reply.body.doc.v
    /\ shell.reply.body.doc.v["results"].t = "obj"
    /\ "bindings" \in DOMAIN shell.reply.body.doc.v["results"].v
    /\ shell.reply.body.doc.v["results"].v["bindings"] = List(<<>>)

\* C14: a 2xx SPARQL response with an empty bindings sequence is returned by
\* sparql_query as a normal result set, and zurich_sparql returns
\* "SPARQL-Abfrage lieferte keine Ergebnisse.", which is none of the messages
\* the classifier produces.
C14_ZeroRows ==
    (SparqlServed /\ shell.pc = "done" /\ EmptyBindings) =>
        /\ shell.adapter_outcome = Return(shell.reply.body.doc)
        /\ shell.outcome = Return(Str("SPARQL-Abfrage lieferte keine Ergebnisse."))
        /\ ~StartsWith(shell.outcome.value.v, "Fehler")
        /\ \A e \in Failures, context \in Contexts :
              handle_api_error(e, context) # shell.outcome

C14_Witness ==
    /\ SparqlServed /\ shell.pc = "done" /\ EmptyBindings
    /\ shell.reply.body.doc = SparqlResultSet
    /\ shell.outcome.kind = "return"
    /\ Len(shell.requests) = 1

\* The root of the parsed response has a numHits attribute that is not an
\* integer literal
MalformedNumHits ==
    /\ px.pc = "read"
    /\ "numHits" \in DOMAIN px.root.value.v.attrib
    /\ px.root.value.v.attrib["numHits"] \in {"abc", "", "4.0"}

\* C15 as stated: paris_get_num_hits never raises; for a root whose numHits
\* attribute is present but not an integer literal it returns 0.
C15_AsStated ==
    /\ px.pc = "read" => px.num_hits.kind = "return"
    /\ MalformedNumHits => px.num_hits.value.v = 0

\* C16: for a root without a numHits attribute paris_get_num_hits returns 0
\* and does not raise.
C16_AbsentIsZero ==
    (px.pc = "read" /\ "numHits" \notin DOMAIN px.root.value.v.attrib) =>
        /\ px.num_hits.kind = "return"
        /\ px.num_hits.value.t = "int"
        /\ px.num_hits.value.v = 0

C16_Witness ==
    /\ px.pc = "read"
    /\ px.body = XmlBody(SearchDetailResponse(None, 2, FALSE))
    /\ px.num_hits.kind = "return"
    /\ Len(px.hits) = 2

\* C17: for a well-formed records response whose root carries numHits=n and
\* has k Hit children, paris_get_num_hits returns n and findall("sr:Hit")
\* yields k elements, whatever n and k are.
C17_RoundTrip ==
    \A n \in {0, 3, 42}, k \in 0..MaxHits, other \in BOOLEAN :
        (px.pc = "read" /\ px.body = XmlBody(SearchDetailResponse(Num(n), k, other))) =>
            /\ px.num_hits.kind = "return"
            /\ px.num_hits.value.t = "int"
            /\ px.num_hits.value.v = n
            /\ Len(px.hits) = k
            /\ \A i \in 1..k : px.hits[i].v.attrib["Guid"] = ToString(i)

C17_Witness ==
    /\ px.pc = "read"
    /\ px.body = XmlBody(SearchDetailResponse(Num(42), 3, TRUE))
    /\ px.num_hits.kind = "return"
    /\ px.num_hits.value.v = 42
    /\ Len(px.hits) = 3

\* The text of the element paris_extract_text was given, when it has one
HasText ==
    /\ px.element.t = "xml"
    /\ px.element.v.text.t = "str"
    /\ px.element.v.text.v # ""

\* The characters of s from the first to the last that is not whitespace
Trimmed(s) ==
    LET inner == { i \in 1..Len(s) : SubSeq(s, i, i) \notin Whitespace }
    IN  IF inner = {} THEN ""
        ELSE SubSeq(s, CHOOSE i \in inner : \A j \in inner : i <= j,
                       CHOOSE i \in inner : \A j \in inner : j <= i)

\* C18: paris_extract_text never raises; it returns the default when the
\* element is None or its text is absent or empty, and otherwise the
\* element's text without leading and trailing whitespace.
C18_ExtractText ==
    px.pc = "extracted" =>
        /\ px.text.kind = "return"
        /\ px.text.value.t = "str"
        /\ px.text.value.v = (IF HasText THEN Trimmed(px.element.v.text.v) ELSE px.default)

C18_Witness ==
    /\ px.pc = "extracted"
    /\ HasText
    /\ px.element.v.text.v = " Neubau Schulhaus\n"
    /\ px.default = "Ohne Titel"
    /\ px.text.kind = "return"
    /\ px.text.value.v = "Neubau Schulhaus"

\* The last finished call is a records search that was answered by a response
ParisAnswered == last.call.adapter = "paris_search" /\ last.reply.kind = "response"

\* The body of that response is not well-formed XML
NotWellFormed == last.reply.body.kind # "xml" \/ last.reply.body.doc.v \in MalformedXml

\* C19: paris_search fails with a ParseError on a 2xx response whose body is
\* not well-formed XML, and the classifier turns that failure into its
\* fallback message, which is none of its HTTP messages; on a non-2xx response
\* paris_search fails with the HTTPStatusError of that status whatever the body
\* is, so before the body is parsed.
C19_ParseFailure ==
    ParisAnswered =>
        /\ (is_success(last.reply.status) /\ NotWellFormed) =>
              /\ last.outcome.kind = "raise"
              /\ last.outcome.exc.type = "ParseError"
              /\ ~IsInstance(last.outcome.exc, "HTTPStatusError")
              /\ \A context \in Contexts :
                    /\ handle_api_error(last.outcome.exc, context) =
                          Return(Str(error_prefix(context) \o "ParseError: "
                                         \o last.outcome.exc.msg))
                    /\ \A st \in ErrorStatuses \cup MoreStatuses :
                          handle_api_error(last.outcome.exc, context) #
                              handle_api_error(Exc("HTTPStatusError", st, ""), context)
        /\ ~is_success(last.reply.status) =>
              /\ last.outcome.kind = "raise"
              /\ last.outcome.exc.type = "HTTPStatusError"
              /\ last.outcome.exc.status = last.reply.status

C19_Witness ==
    /\ ParisAnswered
    /\ last.reply.status = 200
    /\ last.reply.body = XmlBody(XmlTruncated)
    /\ last.outcome.kind = "raise"
    /\ last.outcome.exc.type = "ParseError"

\* The record format_dataset_summary was given has an identifier and no
\* other field
OnlyName == fmt.pc = "out" /\ DOMAIN fmt.dataset.v = {"name"}

\* C20: given a record with only the identifier name, format_dataset_summary
\* raises nothing and returns a summary with the placeholder of every other
\* field ("Unbekannt" for title, author and license, 0 resources, an empty
\* last-modified), no optional line, and the URL built from the identifier.
C20_OnlyIdentifier ==
    OnlyName =>
        /\ fmt.out.kind = "return"
        /\ fmt.out.value.t = "str"
        /\ fmt.out.value.v =
              join("\n", << "### Unbekannt",
                            "- **ID**: " \o Backtick \o fmt.dataset.v["name"].v \o Backtick,
                            "- **Autor**: Unbekannt",
                            "- **Lizenz**: Unbekannt",
                            "- **Ressourcen**: 0",
                            "- **Letzte Änderung**: ",
                            "- **URL**: https://data.stadt-zuerich.ch/dataset/"
                                \o fmt.dataset.v["name"].v >>)

C20_Witness ==
    /\ OnlyName
    /\ fmt.dataset = Obj("name" :> Str("schulferien"))
    /\ fmt.out.kind = "return"
    /\ Contains(fmt.out.value.v, "https://data.stadt-zuerich.ch/dataset/schulferien")

\* format_dataset_summary returned a summary of a record with a non-empty
\* description
Described ==
    /\ fmt.pc = "out" /\ fmt.out.kind = "return"
    /\ "notes" \in DOMAIN fmt.dataset.v
    /\ fmt.dataset.v["notes"].t = "str"
    /\ fmt.dataset.v["notes"].v # ""

\* The description line of the summary reads `text`
DescriptionIs(text) ==
    Contains(fmt.out.value.v, "\n- **Beschreibung**: " \o text \o "\n- **URL**: ")

\* C21 as stated: the description in the summary is the record's notes cut
\* to their first 300 characters, and the ellipsis marker is there when the
\* description was truncated, and only then.
C21_AsStated ==
    Described =>
        LET notes == fmt.dataset.v["notes"].v
        IN  IF Len(notes) > 300
            THEN DescriptionIs(SubSeq(notes, 1, 300) \o "...")
            ELSE DescriptionIs(notes)

\* A handler's wfs_get_features call was answered by a 2xx response with a
\* JSON document
WfsAnswered ==
    /\ shell.pc = "done"
    /\ shell.call.adapter = "wfs_get_features"
    /\ shell.reply.kind = "response" /\ is_success(shell.reply.status)
    /\ shell.reply.body.kind = "json"

\* The features of a decoded collection
FeaturesOf(collection) == collection.v["features"].v

\* C22: wfs_get_features returns the decoded document of the backend as it
\* is; the returned collection has as many features as the backend sent,
\* also when that is more than max_features.
C22_NotTruncated ==
    WfsAnswered =>
        /\ shell.adapter_outcome.kind = "return"
        /\ shell.adapter_outcome.value = shell.reply.body.doc
        /\ shell.reply.body.doc = FeatureCollection =>
              /\ Len(FeaturesOf(shell.adapter_outcome.value)) = 5
              /\ \A i \in 1..5 :
                    FeaturesOf(shell.adapter_outcome.value)[i].v["geometry"].v["type"]
                        = Str("Point")

C22_Witness ==
    /\ WfsAnswered
    /\ shell.handler = "zurich_geo_features"
    /\ shell.call.args.max_features = 3
    /\ shell.reply.body.doc = FeatureCollection
    /\ Len(FeaturesOf(shell.adapter_outcome.value)) = 5

\* A handler has sent the request of a wfs_get_features call
WfsRequested == shell.call.adapter = "wfs_get_features" /\ Len(shell.requests) > 0

FixedWfsParams ==
    {"service", "version", "request", "typename", "outputFormat", "maxFeatures"}

\* C23: a wfs_get_features request carries service=WFS, version=1.1.0,
\* request=GetFeature and the typename, outputFormat and maxFeatures of the
\* call; it carries CQL_FILTER, with the filter text as given, when the call
\* has a (non-empty) filter, and no such parameter when it has none.
C23_WfsParams ==
    WfsRequested =>
        LET sent == shell.requests[1].params
            args == shell.call.args
            filtered == args.cql_filter.t = "str" /\ args.cql_filter.v # ""
        IN  /\ shell.requests[1].url = WFS_BASE_URL \o "/" \o args.service_name
            /\ DOMAIN sent = FixedWfsParams \cup (IF filtered THEN {"CQL_FILTER"} ELSE {})
            /\ sent["service"].v = "WFS"
            /\ sent["version"].v = "1.1.0"
            /\ sent["request"].v = "GetFeature"
            /\ sent["typename"].v = args.typename
            /\ sent["outputFormat"].v = args.output_format
            /\ sent["maxFeatures"].v = ToString(args.max_features)
            /\ filtered => sent["CQL_FILTER"].v = args.cql_filter.v
            /\ shell.handler = "zurich_geo_features" =>
                  /\ args.cql_filter.t = shell.params.property_filter.t
                  /\ args.cql_filter.v = shell.params.property_filter.v

C23_Witness ==
    /\ WfsRequested
    /\ shell.params = [layer_id |-> "spielplaetze", max_features |-> 50,
                       property_filter |-> Str("name LIKE '%; x")]
    /\ shell.requests[1].params["CQL_FILTER"].v = "name LIKE '%; x"
    /\ shell.requests[1].params["maxFeatures"].v = "50"
    /\ shell.requests[1].params["typename"].v = "poi_oeffentl_spielplatz_view"

\* The handler returned the text `start` followed by a list that names every
\* key of `registry`, and sent no request
UnknownListing(start, registry) ==
    /\ shell.pc = "done"
    /\ shell.outcome.kind = "return"
    /\ shell.outcome.value.t = "str"
    /\ StartsWith(shell.outcome.value.v, start)
    /\ \A key \in DOMAIN registry : Contains(shell.outcome.value.v, Backtick \o key \o Backtick)
           \/ Contains(shell.outcome.value.v, " " \o key \o ",")
           \/ Contains(shell.outcome.value.v, ", " \o key)
    /\ shell.requests = <<>>

\* What C24 says of zurich_geo_features and zurich_geo_layers
GeoRegistryFirst ==
    /\ (shell.handler = "zurich_geo_features" /\ shell.pc # "idle") =>
          IF shell.params.layer_id \in DOMAIN GEOPORTAL_LAYERS
          THEN /\ Len(shell.requests) = 1
               /\ shell.call.args.service_name = GEOPORTAL_LAYERS[shell.params.layer_id][1]
               /\ shell.call.args.typename = GEOPORTAL_LAYERS[shell.params.layer_id][2]
               /\ shell.requests[1].url =
                     WFS_BASE_URL \o "/" \o GEOPORTAL_LAYERS[shell.params.layer_id][1]
               /\ shell.requests[1].params["typename"].v =
                     GEOPORTAL_LAYERS[shell.params.layer_id][2]
          ELSE UnknownListing("Unbekannter Layer " \o Backtick \o shell.params.layer_id
                                  \o Backtick \o ". Verfügbar: ", GEOPORTAL_LAYERS)
    /\ (shell.handler = "zurich_geo_layers" /\ shell.pc # "idle") =>
          UnknownListing("## Verfügbare Geoportal-Layer (WFS)", GEOPORTAL_LAYERS)

\* What C24 says of zurich_tourism, for the categories `known` that count as
\* registry keys, each with the key it stands for
TourismRegistryFirst(known, key_of(_)) ==
    (shell.handler = "zurich_tourism" /\ shell.pc # "idle") =>
        IF shell.params.category \in known
        THEN /\ Len(shell.requests) = 1
             /\ shell.requests[1].url =
                   ZT_API_URL \o "?id=" \o ToString(ZT_CATEGORIES[key_of(shell.params.category)])
        ELSE IF isdigit(shell.params.category)
        THEN /\ Len(shell.requests) = 1
             /\ StartsWith(shell.requests[1].url, ZT_API_URL \o "?id=")
        ELSE UnknownListing("Unbekannte Kategorie " \o Backtick \o shell.params.category
                                \o Backtick \o ". Verfügbar:\n", ZT_CATEGORIES)

SentRequests ==
    UNION { { requests[c][i] : i \in 1..Len(requests[c]) } : c \in CallIds }
    \cup { last.requests[i] : i \in 1..Len(last.requests) }

\* C25: every request any adapter sends, in any sequence of calls, is a GET.
C25_OnlyGet == \A r \in SentRequests : r.method = "GET"

C25_Witness ==
    /\ last.call.adapter = "ckan_request"
    /\ Len(last.requests) = 1
    /\ last.requests[1].method = "GET"
    /\ \E c \in CallIds :
          /\ calls[c].pc = "awaiting"
          /\ calls[c].call.adapter = "sparql_query"
          /\ requests[c][1].method = "GET"

\* C26: a suspended call works with a client as the factory makes it, and
\* every request carries the timeout of 30 s, the identifying User-Agent
\* header and redirect following.
C26_FactorySettings ==
    /\ \A c \in CallIds :
          calls[c].pc = "awaiting" => clients[calls[c].client] = _get_client
    /\ \A r \in SentRequests :
          /\ r.timeout = 30
          /\ "User-Agent" \in DOMAIN r.headers
          /\ r.headers["User-Agent"] = Str(USER_AGENT)
          /\ r.follow_redirects = TRUE

C26_Witness ==
    /\ last.call.adapter = "sparql_query"
    /\ last.requests[1].headers["User-Agent"] = Str(USER_AGENT)
    /\ DOMAIN last.requests[1].headers = {"Accept", "User-Agent"}
    /\ \E c \in CallIds :
          /\ calls[c].pc = "awaiting"
          /\ calls[c].call.adapter = "paris_search"
          /\ requests[c][1].timeout = 30
          /\ requests[c][1].follow_redirects

\* The last finished call is a ckan_request that was answered by a response
CkanAnswered == last.call.adapter = "ckan_request" /\ last.reply.kind = "response"

\* C29: a ckan_request answered with a non-2xx status fails with the
\* HTTPStatusError of that status, which the classifier reports by its status
\* code, also when the body is an envelope with success=false, whose error
\* message is not reported; the envelope error is raised for 2xx responses
\* only.
C29_StatusFirst ==
    CkanAnswered =>
        /\ ~is_success(last.reply.status) =>
              /\ last.outcome.kind = "raise"
              /\ last.outcome.exc.type = "HTTPStatusError"
              /\ last.outcome.exc.status = last.reply.status
              /\ ~Contains(last.outcome.exc.msg, "Access denied")
              /\ \A context \in Contexts :
                    /\ handle_api_error(last.outcome.exc, context) =
                          status_message(error_prefix(context), last.reply.status)
                    /\ ~Contains(handle_api_error(last.outcome.exc, context).value.v,
                                 "Access denied")
        /\ (last.outcome.kind = "raise" /\ last.outcome.exc.type = "RuntimeError") =>
              is_success(last.reply.status)

C29_Witness ==
    /\ CkanAnswered
    /\ last.reply.status = 403
    /\ last.reply.body = JsonBody(DeniedEnvelope)
    /\ last.outcome.kind = "raise"
    /\ last.outcome.exc.type = "HTTPStatusError"

\* The search was answered with a page: a count and a list of catalog records
PageShown ==
    /\ search.pc = "done"
    /\ search.adapter_outcome.kind = "return"
    /\ search.adapter_outcome.value \in SearchPages

EndsWith(s, p) == Len(p) <= Len(s) /\ SubSeq(s, Len(s) - Len(p) + 1, Len(s)) = p

HintMark == "Weitere Ergebnisse mit offset="

\* C28: for a page with records and a count, zurich_search_datasets reports
\* the count and the number of records shown, and it ends with the next-page
\* hint exactly when count > offset + shown, the hint naming offset + shown;
\* for a page without records it returns the 'no datasets found' message
\* whatever the count.
C28_Pagination ==
    PageShown =>
        LET page == search.adapter_outcome.value.v
            total == page["count"]
            shown == Len(page["results"].v)
            offset == search.params.offset
            out == search.outcome
        IN  /\ out.kind = "return" /\ out.value.t = "str"
            /\ shown = 0 =>
                  out.value.v = "Keine Datensätze gefunden für '" \o search.params.query \o "'."
            /\ (shown > 0 /\ total.t = "int") =>
                  /\ StartsWith(out.value.v,
                                "## Suchergebnis: " \o ToString(total.v) \o " Datensätze für '"
                                    \o search.params.query \o "'\n"
                                    \o "Zeige " \o ToString(shown) \o " von " \o ToString(total.v)
                                    \o " (Offset: " \o ToString(offset) \o ")\n")
                  /\ Contains(out.value.v, HintMark) <=> total.v > offset + shown
                  /\ Contains(out.value.v, HintMark) =>
                        EndsWith(out.value.v, "\n*→ " \o HintMark
                                                  \o ToString(offset + shown) \o "*")

\* A page that ends exactly at the count, shown from an offset: no hint
C28_Witness ==
    /\ PageShown
    /\ search.params.offset = 2
    /\ Len(search.adapter_outcome.value.v["results"].v) = 2
    /\ search.adapter_outcome.value.v["count"].t = "int"
    /\ search.adapter_outcome.value.v["count"].v = 4
    /\ search.outcome.kind = "return"
    /\ ~Contains(search.outcome.value.v, HintMark)

\* The terms the claim lists for the topic of the running call
ListedTerms ==
    IF school.topic.t = "str" /\ school.topic.v # ""
    THEN <<school.topic.v, "Schule", "Volksschule", "Kindergarten", "Schulanlage">>
    ELSE CuratedTerms

\* The queries sent so far are package_search requests for the listed terms,
\* in the order of the list, and a report is returned after the last one only
QueriesInOrder ==
    school.pc # "idle" =>
        /\ Len(CuratedTerms) = 11
        /\ Len(school.requests) \in 1..Len(ListedTerms)
        /\ \A k \in 1..Len(school.requests) :
              /\ school.requests[k].method = "GET"
              /\ school.requests[k].url = CKAN_API_URL \o "/package_search"
              /\ school.requests[k].params["q"] = Str(ListedTerms[k])
        /\ (school.pc = "done" /\ school.outcome.kind = "return"
                /\ StartsWith(school.outcome.value.v, "## Schulrelevante Datensätze"))
              => Len(school.requests) = Len(ListedTerms)

NameOf(ds) == ds.v["name"].v

\* No name occurs twice in the merged list
NoDuplicates ==
    \A i, j \in 1..Len(school.datasets) :
        NameOf(school.datasets[i]) = NameOf(school.datasets[j]) => i = j

\* The last query failed, or its result could not be merged
QueryFailed ==
    /\ school.pc = "done"
    /\ \/ school.adapter_outcome.kind = "raise"
       \/ school_merge({}, <<>>, school.adapter_outcome).kind = "raise"
    /\ school.reply # Thrown(CancelledError)

\* After a failed query the outcome is the message of the classifier, with
\* nothing of the list collected so far
FailureIsMessage ==
    QueryFailed =>
        /\ school.outcome.kind = "return"
        /\ school.adapter_outcome.kind = "raise" =>
              school.outcome = handle_api_error(school.adapter_outcome.exc, "Schuldaten-Suche")
        /\ StartsWith(school.outcome.value.v, "Fehler bei Schuldaten-Suche: ")
        /\ ~Contains(school.outcome.value.v, "Treffer")
        /\ \A i \in 1..Len(school.datasets) :
              ~Contains(school.outcome.value.v, NameOf(school.datasets[i]))

\* `after` is `before` followed by the records of `page` whose names `before`
\* does not have, each once, as and where the page has it first
MergedInOrder(before, page, after) ==
    LET first_of(name) == CHOOSE i \in 1..Len(page) :
                              /\ NameOf(page[i]) = name
                              /\ \A j \in 1..(i - 1) : NameOf(page[j]) # name
        old == { NameOf(before[i]) : i \in 1..Len(before) }
        added == (Len(before) + 1)..Len(after)
    IN  /\ Len(before) <= Len(after)
        /\ SubSeq(after, 1, Len(before)) = before
        /\ \A k \in added :
              /\ NameOf(after[k]) \notin old
              /\ \E i \in 1..Len(page) : NameOf(page[i]) = NameOf(after[k])
              /\ after[k] = page[first_of(NameOf(after[k]))]
        /\ \A k, l \in added :
              k < l => first_of(NameOf(after[k])) < first_of(NameOf(after[l]))
        /\ \A i \in 1..Len(page) :
              \E k \in 1..Len(after) : NameOf(after[k]) = NameOf(page[i])

\* A step in which a query is answered: a result list is merged in order, and
\* nothing is merged from a query that failed
MergeStep ==
    (school.pc = "awaiting" /\ school'.pc # "idle") =>
        LET ao == school'.adapter_outcome
        IN  IF ao.kind = "return" /\ ao.value.t = "obj" /\ "results" \in DOMAIN ao.value.v
                /\ ao.value.v["results"].v \in SchoolPages
            THEN MergedInOrder(school.datasets, ao.value.v["results"].v, school'.datasets)
            ELSE school'.datasets = school.datasets /\ school'.pc = "done"

\* C27: zurich_find_school_data sends one package_search per listed term, in
\* list order and one after the other; the merged list has each name at most
\* once, in the order of first occurrence; a failed query ends the call with
\* the message of the classifier and nothing of the list.
C27_SchoolQueries ==
    /\ [](QueriesInOrder /\ NoDuplicates /\ FailureIsMessage)
    /\ [][MergeStep]_vars

\* All eleven queries answered; the last page repeats, under another title, a
\* name that an earlier page had
C27_Witness ==
    /\ school.pc = "done"
    /\ Len(school.requests) = 11
    /\ school.datasets = CatalogRecords
    /\ school.adapter_outcome.kind = "return"
    /\ school.adapter_outcome.value.v["results"].v[2] = RenamedRecord
    /\ school.outcome.kind = "return"
    /\ Contains(school.outcome.value.v, "**3 Treffer**")

\* The running call was not abandoned at its last await
NotAbandoned(a) == a.reply # Thrown(CancelledError)

\* The report has a section for every dataset of the search and no error text
Reported ==
    (analyze.pc = "done" /\ analyze.datasets # <<>> /\ NotAbandoned(analyze)) =>
        /\ analyze.outcome.kind = "return"
        /\ analyze.outcome.value.t = "str"
        /\ StartsWith(analyze.outcome.value.v, "## Analyse: '")
        /\ ~Contains(analyze.outcome.value.v, "Fehler")
        /\ \A i \in 1..Len(analyze.datasets) :
              /\ Contains(analyze.outcome.value.v,
                          "### " \o ToString(i) \o ". "
                              \o analyze.datasets[i].v["title"].v \o "\n")
              /\ Contains(analyze.outcome.value.v,
                          "/dataset/" \o analyze.datasets[i].v["name"].v \o "\n")
        /\ ~analyze.params.include_structure => Len(analyze.requests) = 1

\* The datastore-active resources of dataset di after resource ri
LaterActive(a) ==
    { r \in (a.ri + 1)..Len(a.datasets[a.di].v["resources"].v) :
        LET res == a.datasets[a.di].v["resources"].v[r].v
        IN  "datastore_active" \in DOMAIN res /\ res["datastore_active"] = Bool(TRUE) }

\* A step in which a probe is answered. After a probe that succeeded no
\* further resource of the dataset is probed; a probe that failed adds nothing
\* to the report, and the next datastore-active resource of the dataset, if
\* there is one, is probed next; a step sends at most one request, a
\* datastore_search for the resource probed next.
ProbeStep ==
    (analyze.pc = "probing" /\ analyze'.pc # "idle" /\ NotAbandoned(analyze')) =>
        LET ao == analyze'.adapter_outcome
            succeeded == ao.kind = "return" /\ ao.value \in DatastoreInfos
            added == Len(analyze.lines) + 1
        IN  /\ analyze'.pc \in {"probing", "done"}
            /\ Len(analyze.lines) <= Len(analyze'.lines)
            /\ SubSeq(analyze'.lines, 1, Len(analyze.lines)) = analyze.lines
            /\ \A k \in 1..Len(analyze'.lines) : ~Contains(analyze'.lines[k], "Fehler")
            /\ IF succeeded
               THEN /\ Len(analyze'.lines) >= added
                    /\ StartsWith(analyze'.lines[added], "- **DataStore-Einträge**: ")
                    /\ analyze'.pc = "probing" => analyze'.di > analyze.di
               ELSE /\ Len(analyze'.lines) >= added =>
                          ~StartsWith(analyze'.lines[added], "- **DataStore-Einträge**: ")
                    /\ IF LaterActive(analyze) # {}
                       THEN /\ analyze'.pc = "probing"
                            /\ analyze'.di = analyze.di
                            /\ analyze'.ri \in LaterActive(analyze)
                            /\ \A r \in LaterActive(analyze) : analyze'.ri <= r
                       ELSE analyze'.pc = "probing" => analyze'.di > analyze.di
            /\ IF analyze'.pc = "probing"
               THEN /\ Len(analyze'.requests) = Len(analyze.requests) + 1
                    /\ LET sent == analyze'.requests[Len(analyze'.requests)]
                           res == analyze'.datasets[analyze'.di].v["resources"].v[analyze'.ri]
                       IN  /\ sent.url = CKAN_API_URL \o "/datastore_search"
                           /\ sent.params["resource_id"] = res.v["id"]
                           /\ res.v["datastore_active"] = Bool(TRUE)
               ELSE /\ analyze'.requests = analyze.requests
                    /\ analyze'.outcome.kind = "return"

\* C30: with include_structure the datastore-active resources of a dataset
\* are probed in order, one datastore_search each, up to the first probe that
\* succeeds; a failed probe is swallowed and leaves no text; the report is
\* returned whenever the initial package_search found datasets.
C30_ProbesSwallowed == []Reported /\ [][ProbeStep]_vars

\* The first probe of a dataset failed, the second succeeded, the third
\* datastore-active resource was not probed
C30_Witness ==
    /\ analyze.pc = "done"
    /\ analyze.datasets = <<AnalyzedRecords[1]>>
    /\ Len(analyze.requests) = 3
    /\ analyze.requests[2].params["resource_id"] = Str("r1")
    /\ analyze.requests[3].params["resource_id"] = Str("r3")
    /\ analyze.outcome.kind = "return"
    /\ Contains(analyze.outcome.value.v, "- **DataStore-Einträge**: 1,234\n- **Felder**: ")
    /\ Contains(analyze.outcome.value.v, "jahr")
    /\ ~Contains(analyze.outcome.value.v, "_id")
    /\ ~Contains(analyze.outcome.value.v, "Fehler")

=============================================================================
